---- MODULE Spec2Model ----
(***************************************************************************)
(* Model of the validation-session backend of src/src/server.ts: the three *)
(* collections (ValidationSession, MinerHistory, RewardUpdate), the nine   *)
(* mutating request handlers, the read handlers (session, stats, miner     *)
(* history, leaderboard, project summary) and the responses they send.     *)
(* Every handler                                                           *)
(* is translated store call by store call: a handler with one store call   *)
(* is one action, a handler with several awaits (miner-reward,             *)
(* rewards-update) is one action per store call, so that requests          *)
(* interleave exactly where the event loop lets them.                      *)
(*                                                                         *)
(* Store semantics assumed of the document mapper (current major           *)
(* versions): an update operator whose value is undefined is dropped from  *)
(* the update ($set leaves that path alone); findOneAndUpdate does not     *)
(* touch the version key; save() of a loaded document writes only the      *)
(* modified paths, and when an array path was reassigned it matches on and *)
(* increments the version key.                                             *)
(***************************************************************************)
EXTENDS Integers, Sequences, FiniteSets, TLC

VARIABLES sessions, minerHistory, rewardUpdates, inflight, last, nreq, nextUuid, now

vars == <<sessions, minerHistory, rewardUpdates, inflight, last, nreq, nextUuid, now>>

store == <<sessions, minerHistory, rewardUpdates>>

\* ------------------------------------------------------------------ bounds
\* requests started in one behaviour
MaxOps == 4
\* documents in the ValidationSession collection
MaxSessions == 2
\* requests that are between two awaits at the same time
MaxInflight == 2
\* ticks of the server clock in one behaviour
MaxTime == 1
\* the last day the server clock reaches in one behaviour
MaxDays == 31

\* ------------------------------------------------------- JSON values
\* A JSON scalar as the handlers see it: k is its typeof; a number is the
\* fraction num/den (den = 0 with k = "number" is NaN); a string carries the
\* number it casts to (den = 1) or den = 0 when it casts to none.
Num(n) == [k |-> "number", num |-> n, den |-> 1]
Half(n) == [k |-> "number", num |-> n, den |-> 2]
NaN == [k |-> "number", num |-> 0, den |-> 0]
Undefined == [k |-> "undefined", num |-> 0, den |-> 0]
NumStr(n) == [k |-> "string", num |-> n, den |-> 1]
BadStr == [k |-> "string", num |-> 0, den |-> 0]
\* an absent string-valued argument or path
NoStr == "undefined"

IsNumberLike(v) == v.k \in {"number", "string"}

\* typeof v === 'number'
IsNumber(v) == v.k = "number"

Abs(n) == IF n < 0 THEN -n ELSE n

RECURSIVE Gcd(_, _)
Gcd(a, b) == IF b = 0 THEN a ELSE Gcd(b, a % b)

\* the number n/d (d > 0) in lowest terms; n/0 is NaN
Div(n, d) ==
    IF d = 0 THEN NaN
    ELSE LET g == Gcd(Abs(n), d)
         IN  [k |-> "number", num |-> n \div g, den |-> d \div g]

\* v > 0 as JavaScript evaluates it for a number or undefined
Positive(v) == v.k = "number" /\ v.den > 0 /\ v.num > 0

\* truthiness of a number-or-undefined value (0, NaN and undefined are falsy)
Truthy(v) ==
    CASE v.k = "number" -> v.den > 0 /\ v.num # 0
      [] v.k = "string" -> TRUE
      [] OTHER -> FALSE

\* the schema's cast of a value to Number: can it be stored, and as what
Castable(v) ==
    CASE v.k = "number" -> v.den > 0
      [] v.k = "string" -> v.den > 0
      [] OTHER -> TRUE

CastNumber(v) ==
    IF v.k = "string" THEN [k |-> "number", num |-> v.num, den |-> v.den] ELSE v

\* a request's array argument: isArray is Array.isArray of what was sent
Arr(s) == [isArray |-> TRUE, elems |-> s]
NotArray == [isArray |-> FALSE, elems |-> <<>>]

\* $set of one path: an undefined value is dropped from the update
SetPath(old, v) == IF v = Undefined THEN old ELSE v

RECURSIVE SumSeq(_)
SumSeq(s) == IF s = <<>> THEN 0 ELSE Head(s).num + SumSeq(Tail(s))

Indices(s) == 1..Len(s)

\* null, as an accumulator or a response field holds it
Null == [k |-> "null", num |-> 0, den |-> 0]

\* a + b of two numbers
Plus(a, b) == Div(a.num * b.den + b.num * a.den, a.den * b.den)

\* a <= b of two numbers
Leq(a, b) == a.num * b.den <= b.num * a.den

\* the numbers among a sequence of values: $sum and $avg skip the others
Numbers(values) == SelectSeq(values, LAMBDA v : v.k = "number" /\ v.den > 0)

\* $sum of a sequence of values
RECURSIVE SumNumbers(_)
SumNumbers(values) ==
    IF Numbers(values) = <<>> THEN Num(0)
    ELSE Plus(Head(Numbers(values)), SumNumbers(Tail(Numbers(values))))

\* sum / n as JavaScript divides: 0 / 0 is NaN
DivideBy(sum, n) == IF n = 0 THEN NaN ELSE Div(sum.num, sum.den * n)

\* $avg of a sequence of values: null when none of them is a number
Avg(values) ==
    IF Numbers(values) = <<>> THEN Null
    ELSE DivideBy(SumNumbers(values), Len(Numbers(values)))

\* v || 0 for a number-or-undefined value
OrZero(v) == IF Truthy(v) THEN v ELSE Num(0)

\* parseInt of the decimal text of a number: the fraction is cut off
ParseInt(v) ==
    IF v.k # "number" \/ v.den = 0 THEN NaN
    ELSE IF v.num >= 0 THEN Num(v.num \div v.den)
    ELSE Num(-((-v.num) \div v.den))

\* the orders in which a sort may return n documents
Orderings(n) == {f \in [1..n -> 1..n] : \A i, j \in 1..n : i # j => f[i] # f[j]}

Min(a, b) == IF a <= b THEN a ELSE b

\* ------------------------------------------------------------- documents
NoMetrics ==
    [totalQueryTime |-> Undefined, averageRewardScore |-> Undefined,
     successRate |-> Undefined, failureCount |-> Undefined,
     validFindings |-> Undefined]

NoChallenge ==
    [projectId |-> NoStr, description |-> NoStr, difficulty |-> NoStr,
     rawData |-> NoStr]

NoGroundTruth ==
    [reportId |-> NoStr, vulnerabilities |-> <<>>, criticalIssues |-> Undefined,
     rawData |-> NoStr]

NoSnapshot ==
    [netuid |-> Undefined, block |-> Undefined, activeValidators |-> Undefined,
     activeMiners |-> Undefined, totalStake |-> Undefined,
     emissionPerBlock |-> Undefined]

\* state given to a new session
InitialState == "pending"

\* sampledMinerCount || sampledMinerUids.length
SampledCount(count, uids) ==
    IF Truthy(count) THEN CastNumber(count) ELSE Num(Len(uids))

\* new ValidationSession({...}) with the schema defaults
NewSession(sessionId, body, t) ==
    [sessionId |-> sessionId,
     timestamp |-> t,
     projectId |-> NoStr,
     state |-> InitialState,
     sampledMinerCount |->
         SampledCount(body.sampledMinerCount, body.sampledMinerUids.elems),
     sampledMinerUids |->
         [i \in Indices(body.sampledMinerUids.elems) |->
             CastNumber(body.sampledMinerUids.elems[i])],
     challengeInfo |-> NoChallenge,
     groundTruth |-> NoGroundTruth,
     minerResponses |-> <<>>,
     computedRewards |-> <<>>,
     metrics |-> NoMetrics,
     subnetSnapshot |-> NoSnapshot,
     validationErrors |-> <<>>,
     metadata |-> [validatorAddress |-> body.validatorAddress,
                   configVersion |-> body.configVersion],
     version |-> 0]

\* the position of the first document a filter on sessionId matches, 0 if none
FindOne(sid) ==
    IF \E i \in Indices(sessions) : sessions[i].sessionId = sid
    THEN CHOOSE i \in Indices(sessions) :
             /\ sessions[i].sessionId = sid
             /\ \A j \in 1..(i - 1) : sessions[j].sessionId # sid
    ELSE 0

SessionIds == {sessions[i].sessionId : i \in Indices(sessions)}

\* ------------------------------------------------------------- responses
NoResponse == [id |-> 0, op |-> "none", code |-> 0, sid |-> 0, body |-> <<>>]

Response(id, op, code, sid, body) ==
    [id |-> id, op |-> op, code |-> code, sid |-> sid, body |-> body]

\* a handler with a single store call: the request starts and is answered
Answer(op, code, sid, body) ==
    /\ nreq < MaxOps
    /\ nreq' = nreq + 1
    /\ last' = Response(nreq + 1, op, code, sid, body)

Init ==
    /\ sessions = <<>>
    /\ minerHistory = <<>>
    /\ rewardUpdates = <<>>
    /\ inflight = {}
    /\ last = NoResponse
    /\ nreq = 0
    /\ nextUuid = 1
    /\ now = 0

\* ------------------------------------------------- POST /validation/start
StartValidation(body) ==
    /\ IF ~body.sampledMinerUids.isArray
       THEN /\ Answer("start", 400, 0, body)
            /\ UNCHANGED <<sessions, nextUuid>>
       ELSE /\ Len(sessions) < MaxSessions
            /\ nextUuid' = nextUuid + 1
            /\ IF /\ Castable(body.sampledMinerCount)
                  /\ \A i \in Indices(body.sampledMinerUids.elems) :
                         Castable(body.sampledMinerUids.elems[i])
               THEN /\ sessions' = Append(sessions, NewSession(nextUuid, body, now))
                    /\ Answer("start", 201, nextUuid, body)
               ELSE /\ Answer("start", 500, 0, body)
                    /\ UNCHANGED sessions
    /\ UNCHANGED <<minerHistory, rewardUpdates, inflight, now>>

\* ------------------------------------------ POST /validation/:id/challenge
\* the state the challenge handler writes
ChallengeState == "in-progress"

SetStrReplace(old, v) == v

\* $set of one string-valued path: an undefined value is dropped
SetStr(old, v) == IF v = NoStr THEN old ELSE v

\* the time of the challenge stamped on the session's own timestamp
ChallengeUpdateStamped(doc, body) ==
    [doc EXCEPT
        !.state = ChallengeState,
        !.timestamp = now,
        !.projectId = body.projectId,
        !.challengeInfo =
            [projectId |-> body.projectId,
             description |-> SetStr(@.description, body.description),
             difficulty |-> SetStr(@.difficulty, body.difficulty),
             rawData |-> SetStr(@.rawData, body.rawData)]]

ChallengeUpdate(doc, body) ==
    [doc EXCEPT
        !.state = ChallengeState,
        !.projectId = body.projectId,
        !.challengeInfo =
            [projectId |-> body.projectId,
             description |-> SetStr(@.description, body.description),
             difficulty |-> SetStr(@.difficulty, body.difficulty),
             rawData |-> SetStr(@.rawData, body.rawData)]]

RecordChallenge(sid, body) ==
    /\ IF body.projectId = NoStr
       THEN /\ Answer("challenge", 400, sid, body)
            /\ UNCHANGED sessions
       ELSE IF FindOne(sid) = 0
       THEN /\ Answer("challenge", 404, sid, body)
            /\ UNCHANGED sessions
       ELSE /\ sessions' = [sessions EXCEPT ![FindOne(sid)] = ChallengeUpdate(@, body)]
            /\ Answer("challenge", 200, sid, body)
    /\ UNCHANGED <<minerHistory, rewardUpdates, inflight, nextUuid, now>>

\* --------------------------------------- POST /validation/:id/ground-truth
\* the ground truth recorded as a step of the lifecycle: the state is written
GroundTruthUpdateAdvancing(doc, body) ==
    [doc EXCEPT
        !.state = ChallengeState,
        !.groundTruth =
            [reportId |-> SetStr(@.reportId, body.reportId),
             vulnerabilities |-> body.vulnerabilities.elems,
             criticalIssues |-> SetPath(@.criticalIssues, body.criticalIssues),
             rawData |-> SetStr(@.rawData, body.rawData)]]

GroundTruthUpdate(doc, body) ==
    [doc EXCEPT
        !.groundTruth =
            [reportId |-> SetStr(@.reportId, body.reportId),
             vulnerabilities |-> body.vulnerabilities.elems,
             criticalIssues |-> SetPath(@.criticalIssues, body.criticalIssues),
             rawData |-> SetStr(@.rawData, body.rawData)]]

RecordGroundTruth(sid, body) ==
    /\ IF FindOne(sid) = 0
       THEN /\ Answer("ground-truth", 404, sid, body)
            /\ UNCHANGED sessions
       ELSE /\ sessions' = [sessions EXCEPT ![FindOne(sid)] = GroundTruthUpdate(@, body)]
            /\ Answer("ground-truth", 200, sid, body)
    /\ UNCHANGED <<minerHistory, rewardUpdates, inflight, nextUuid, now>>

\* ------------------------------------- POST /validation/:id/miner-response
\* the element $push appends: the reward paths are not part of it
ResponseRecord(body) ==
    [minerUid |-> body.minerUid,
     githubUrl |-> body.githubUrl,
     responseTime |-> body.responseTime,
     success |-> body.success,
     errorMessage |-> body.errorMessage,
     agentPerformance |-> body.agentPerformance,
     rewardScore |-> Undefined,
     rewardReason |-> NoStr]

\* one record per miner: a second response of a miner replaces the first
RecordMinerResponseDedup(sid, body) ==
    /\ IF ~IsNumber(body.minerUid)
       THEN /\ Answer("miner-response", 400, sid, body)
            /\ UNCHANGED sessions
       ELSE IF FindOne(sid) = 0
       THEN /\ Answer("miner-response", 404, sid, body)
            /\ UNCHANGED sessions
       ELSE /\ sessions' = [sessions EXCEPT ![FindOne(sid)].minerResponses =
                   IF \E j \in Indices(@) : @[j].minerUid = body.minerUid
                   THEN [j \in Indices(@) |->
                            IF @[j].minerUid = body.minerUid
                            THEN ResponseRecord(body) ELSE @[j]]
                   ELSE Append(@, ResponseRecord(body))]
            /\ Answer("miner-response", 200, sid, body)
    /\ UNCHANGED <<minerHistory, rewardUpdates, inflight, nextUuid, now>>

RecordMinerResponse(sid, body) ==
    /\ IF ~IsNumber(body.minerUid)
       THEN /\ Answer("miner-response", 400, sid, body)
            /\ UNCHANGED sessions
       ELSE IF FindOne(sid) = 0
       THEN /\ Answer("miner-response", 404, sid, body)
            /\ UNCHANGED sessions
       ELSE /\ sessions' = [sessions EXCEPT ![FindOne(sid)].minerResponses =
                                Append(@, ResponseRecord(body))]
            /\ Answer("miner-response", 200, sid, body)
    /\ UNCHANGED <<minerHistory, rewardUpdates, inflight, nextUuid, now>>

\* --------------------------------------- POST /validation/:id/miner-reward
\* the position of the first document matching
\* { sessionId, 'minerResponses.minerUid': minerUid }, 0 if none
FindWithResponse(sid, uid) ==
    IF /\ FindOne(sid) # 0
       /\ \E j \in Indices(sessions[FindOne(sid)].minerResponses) :
              sessions[FindOne(sid)].minerResponses[j].minerUid = uid
    THEN FindOne(sid)
    ELSE 0

LastMatch(responses, uid) ==
    CHOOSE j \in Indices(responses) :
        /\ responses[j].minerUid = uid
        /\ \A h \in (j + 1)..Len(responses) : responses[h].minerUid # uid

\* the element the positional operator $ addresses: the first one matching
FirstMatch(responses, uid) ==
    CHOOSE j \in Indices(responses) :
        /\ responses[j].minerUid = uid
        /\ \A h \in 1..(j - 1) : responses[h].minerUid # uid

RewardPatch(doc, body) ==
    [doc EXCEPT
        !.minerResponses[FirstMatch(doc.minerResponses, body.minerUid)] =
            [@ EXCEPT !.rewardScore = SetPath(@, body.rewardScore),
                      !.rewardReason = SetStr(@, body.rewardReason)]]

\* a score of zero counted as a success
RewardStatusNonNegative(rewardScore) ==
    IF rewardScore.k = "number" /\ rewardScore.den > 0 /\ rewardScore.num >= 0
    THEN "success" ELSE "failed"

\* rewardScore > 0 ? 'success' : 'failed'
RewardStatus(rewardScore) == IF Positive(rewardScore) THEN "success" ELSE "failed"

HistoryEntry(sid, body, t) ==
    [minerUid |-> body.minerUid,
     sessionId |-> sid,
     rewardScore |-> body.rewardScore,
     timestamp |-> t,
     status |-> RewardStatus(body.rewardScore)]

\* the document a request holds before findOne has loaded one
NoDocument == [sessionId |-> 0]

\* a request between two awaits: where it stands and, once findOne has
\* answered, the document it loaded (its position, the copy and its version)
Request(id, op, pc, sid, body) ==
    [id |-> id, op |-> op, pc |-> pc, sid |-> sid, body |-> body,
     doc |-> 0, version |-> 0, loaded |-> NoDocument]

\* the MinerHistory entry written before the session is looked up
MinerRewardPatchHistoryFirst(sid, body) ==
    /\ IF ~IsNumber(body.minerUid)
       THEN /\ Answer("miner-reward", 400, sid, body)
            /\ UNCHANGED <<sessions, inflight, minerHistory>>
       ELSE IF FindWithResponse(sid, body.minerUid) = 0
       THEN /\ Answer("miner-reward", 404, sid, body)
            /\ minerHistory' = Append(minerHistory, HistoryEntry(sid, body, now))
            /\ UNCHANGED <<sessions, inflight>>
       ELSE /\ nreq < MaxOps
            /\ Cardinality(inflight) < MaxInflight
            /\ nreq' = nreq + 1
            /\ sessions' = [sessions EXCEPT ![FindWithResponse(sid, body.minerUid)] =
                                RewardPatch(@, body)]
            /\ inflight' = inflight \cup
                   {Request(nreq + 1, "miner-reward", "history", sid, body)}
            /\ UNCHANGED <<last, minerHistory>>
    /\ UNCHANGED <<rewardUpdates, nextUuid, now>>

\* the handler up to its second await: the check of minerUid and the
\* findOneAndUpdate on the session
MinerRewardPatch(sid, body) ==
    /\ IF ~IsNumber(body.minerUid)
       THEN /\ Answer("miner-reward", 400, sid, body)
            /\ UNCHANGED <<sessions, inflight>>
       ELSE IF FindWithResponse(sid, body.minerUid) = 0
       THEN /\ Answer("miner-reward", 404, sid, body)
            /\ UNCHANGED <<sessions, inflight>>
       ELSE /\ nreq < MaxOps
            /\ Cardinality(inflight) < MaxInflight
            /\ nreq' = nreq + 1
            /\ sessions' = [sessions EXCEPT ![FindWithResponse(sid, body.minerUid)] =
                                RewardPatch(@, body)]
            /\ inflight' = inflight \cup
                   {Request(nreq + 1, "miner-reward", "history", sid, body)}
            /\ UNCHANGED last
    /\ UNCHANGED <<minerHistory, rewardUpdates, nextUuid, now>>

\* one MinerHistory entry per session and miner: a later reward replaces it
MinerRewardHistoryUpsert(r) ==
    /\ r.op = "miner-reward" /\ r.pc = "history"
    /\ minerHistory' =
           IF \E h \in Indices(minerHistory) :
                  /\ minerHistory[h].sessionId = r.sid
                  /\ minerHistory[h].minerUid = r.body.minerUid
           THEN [h \in Indices(minerHistory) |->
                    IF /\ minerHistory[h].sessionId = r.sid
                       /\ minerHistory[h].minerUid = r.body.minerUid
                    THEN HistoryEntry(r.sid, r.body, now) ELSE minerHistory[h]]
           ELSE Append(minerHistory, HistoryEntry(r.sid, r.body, now))
    /\ inflight' = inflight \ {r}
    /\ last' = Response(r.id, "miner-reward", 200, r.sid, r.body)
    /\ UNCHANGED <<sessions, rewardUpdates, nreq, nextUuid, now>>

\* MinerHistory.create and the response
MinerRewardHistory(r) ==
    /\ r.op = "miner-reward" /\ r.pc = "history"
    /\ minerHistory' = Append(minerHistory, HistoryEntry(r.sid, r.body, now))
    /\ inflight' = inflight \ {r}
    /\ last' = Response(r.id, "miner-reward", 200, r.sid, r.body)
    /\ UNCHANGED <<sessions, rewardUpdates, nreq, nextUuid, now>>

\* MinerHistory.create rejected by the store: the catch block answers 500
\* and nothing undoes the findOneAndUpdate that went before
MinerRewardHistoryFails(r) ==
    /\ r.op = "miner-reward" /\ r.pc = "history"
    /\ inflight' = inflight \ {r}
    /\ last' = Response(r.id, "miner-reward", 500, r.sid, r.body)
    /\ UNCHANGED <<sessions, minerHistory, rewardUpdates, nreq, nextUuid, now>>

\* ------------------------------------- POST /validation/:id/rewards-update
UpdateEntry(updateId, sid, body) ==
    [updateId |-> updateId,
     sessionId |-> sid,
     minerUids |-> [i \in Indices(body.minerUids.elems) |->
                       CastNumber(body.minerUids.elems[i])],
     rewards |-> [i \in Indices(body.rewards.elems) |->
                     CastNumber(body.rewards.elems[i])],
     confirmed |-> FALSE]

\* minerUids.map((uid, idx) => ({ minerUid: uid, score: rewards[idx] }))
ComputedRewards(minerUids, rewards) ==
    [i \in Indices(minerUids) |-> [minerUid |-> minerUids[i], score |-> rewards[i]]]

\* rewards.filter(r => r > 0).length
SuccessCount(rewards) == Cardinality({i \in Indices(rewards) : Positive(rewards[i])})

\* failureCount taken to be the size of the batch
BatchMetricsCountAll(minerUids, rewards) ==
    [totalQueryTime |-> Undefined,
     averageRewardScore |-> Div(SumSeq(rewards), Len(minerUids)),
     successRate |-> Div(SuccessCount(rewards) * 100, Len(minerUids)),
     failureCount |-> Num(Len(minerUids)),
     validFindings |-> Undefined]

\* the object assigned to session.metrics: the paths it does not name are gone
BatchMetrics(minerUids, rewards) ==
    [totalQueryTime |-> Undefined,
     averageRewardScore |-> Div(SumSeq(rewards), Len(minerUids)),
     successRate |-> Div(SuccessCount(rewards) * 100, Len(minerUids)),
     failureCount |-> Num(Len(minerUids) - SuccessCount(rewards)),
     validFindings |-> Undefined]

\* the length check made after RewardUpdate.create instead of before it
RewardsUpdateLogFirst(sid, body) ==
    /\ IF ~body.minerUids.isArray \/ ~body.rewards.isArray
       THEN /\ Answer("rewards-update", 400, sid, body)
            /\ UNCHANGED <<rewardUpdates, inflight, nextUuid>>
       ELSE IF Len(body.minerUids.elems) # Len(body.rewards.elems)
       THEN /\ Answer("rewards-update", 400, sid, body)
            /\ nextUuid' = nextUuid + 1
            /\ rewardUpdates' = Append(rewardUpdates, UpdateEntry(nextUuid, sid, body))
            /\ UNCHANGED inflight
       ELSE /\ nreq < MaxOps
            /\ Cardinality(inflight) < MaxInflight
            /\ nreq' = nreq + 1
            /\ nextUuid' = nextUuid + 1
            /\ rewardUpdates' = Append(rewardUpdates, UpdateEntry(nextUuid, sid, body))
            /\ inflight' = inflight \cup
                   {Request(nreq + 1, "rewards-update", "find", sid, body)}
            /\ UNCHANGED last
    /\ UNCHANGED <<sessions, minerHistory, now>>

\* the handler up to its second await: the two checks and RewardUpdate.create
RewardsUpdateLog(sid, body) ==
    /\ IF \/ ~body.minerUids.isArray
          \/ ~body.rewards.isArray
          \/ Len(body.minerUids.elems) # Len(body.rewards.elems)
       THEN /\ Answer("rewards-update", 400, sid, body)
            /\ UNCHANGED <<rewardUpdates, inflight, nextUuid>>
       ELSE /\ nreq < MaxOps
            /\ Cardinality(inflight) < MaxInflight
            /\ nreq' = nreq + 1
            /\ nextUuid' = nextUuid + 1
            /\ rewardUpdates' = Append(rewardUpdates, UpdateEntry(nextUuid, sid, body))
            /\ inflight' = inflight \cup
                   {Request(nreq + 1, "rewards-update", "find", sid, body)}
            /\ UNCHANGED last
    /\ UNCHANGED <<sessions, minerHistory, now>>

\* a missing session reported to the caller as not found
RewardsUpdateFindNotFound(r) ==
    /\ r.op = "rewards-update" /\ r.pc = "find"
    /\ IF FindOne(r.sid) = 0
       THEN /\ inflight' = inflight \ {r}
            /\ last' = Response(r.id, "rewards-update", 404, r.sid, r.body)
       ELSE /\ inflight' = (inflight \ {r}) \cup
                   {[r EXCEPT !.pc = "save", !.doc = FindOne(r.sid),
                              !.version = sessions[FindOne(r.sid)].version,
                              !.loaded = sessions[FindOne(r.sid)]]}
            /\ UNCHANGED last
    /\ UNCHANGED <<sessions, minerHistory, rewardUpdates, nreq, nextUuid, now>>

\* ValidationSession.findOne: the response when there is no session, else
\* the document is loaded with its version
RewardsUpdateFind(r) ==
    /\ r.op = "rewards-update" /\ r.pc = "find"
    /\ IF FindOne(r.sid) = 0
       THEN /\ inflight' = inflight \ {r}
            /\ last' = Response(r.id, "rewards-update", 200, r.sid, r.body)
       ELSE /\ inflight' = (inflight \ {r}) \cup
                   {[r EXCEPT !.pc = "save", !.doc = FindOne(r.sid),
                              !.version = sessions[FindOne(r.sid)].version,
                              !.loaded = sessions[FindOne(r.sid)]]}
            /\ UNCHANGED last
    /\ UNCHANGED <<sessions, minerHistory, rewardUpdates, nreq, nextUuid, now>>

\* save() writing the whole loaded copy back instead of the assigned paths
RewardsUpdateSaveLoaded(r) ==
    /\ r.op = "rewards-update" /\ r.pc = "save"
    /\ inflight' = inflight \ {r}
    /\ IF \/ Len(r.body.minerUids.elems) = 0
          \/ sessions[r.doc].version # r.version
       THEN /\ last' = Response(r.id, "rewards-update", 500, r.sid, r.body)
            /\ UNCHANGED sessions
       ELSE /\ sessions' = [sessions EXCEPT ![r.doc] =
                   [r.loaded EXCEPT
                       !.computedRewards =
                           ComputedRewards(r.body.minerUids.elems, r.body.rewards.elems),
                       !.metrics =
                           BatchMetrics(r.body.minerUids.elems, r.body.rewards.elems),
                       !.version = @ + 1]]
            /\ last' = Response(r.id, "rewards-update", 200, r.sid, r.body)
    /\ UNCHANGED <<minerHistory, rewardUpdates, nreq, nextUuid, now>>

\* session.save(): validation of the assigned paths, then the update of
\* computedRewards and metrics where the version is the loaded one
RewardsUpdateSave(r) ==
    /\ r.op = "rewards-update" /\ r.pc = "save"
    /\ inflight' = inflight \ {r}
    /\ IF \/ Len(r.body.minerUids.elems) = 0
          \/ sessions[r.doc].version # r.version
       THEN /\ last' = Response(r.id, "rewards-update", 500, r.sid, r.body)
            /\ UNCHANGED sessions
       ELSE /\ sessions' = [sessions EXCEPT ![r.doc] =
                   [@ EXCEPT
                       !.computedRewards =
                           ComputedRewards(r.body.minerUids.elems, r.body.rewards.elems),
                       !.metrics =
                           BatchMetrics(r.body.minerUids.elems, r.body.rewards.elems),
                       !.version = @ + 1]]
            /\ last' = Response(r.id, "rewards-update", 200, r.sid, r.body)
    /\ UNCHANGED <<minerHistory, rewardUpdates, nreq, nextUuid, now>>

\* session.save() rejected by the store: the catch block answers 500 and
\* nothing undoes the RewardUpdate.create that went before
RewardsUpdateSaveFails(r) ==
    /\ r.op = "rewards-update" /\ r.pc = "save"
    /\ inflight' = inflight \ {r}
    /\ last' = Response(r.id, "rewards-update", 500, r.sid, r.body)
    /\ UNCHANGED <<sessions, minerHistory, rewardUpdates, nreq, nextUuid, now>>

\* ------------------------------------ POST /validation/:id/subnet-snapshot
SnapshotUpdate(doc, body) ==
    [doc EXCEPT
        !.subnetSnapshot =
            [netuid |-> body.netuid,
             block |-> body.block,
             activeValidators |-> SetPath(@.activeValidators, body.activeValidators),
             activeMiners |-> SetPath(@.activeMiners, body.activeMiners),
             totalStake |-> SetPath(@.totalStake, body.totalStake),
             emissionPerBlock |-> SetPath(@.emissionPerBlock, body.emissionPerBlock)]]

RecordSubnetSnapshot(sid, body) ==
    /\ IF ~IsNumber(body.netuid) \/ ~IsNumber(body.block)
       THEN /\ Answer("subnet-snapshot", 400, sid, body)
            /\ UNCHANGED sessions
       ELSE /\ sessions' =
                   IF FindOne(sid) = 0 THEN sessions
                   ELSE [sessions EXCEPT ![FindOne(sid)] = SnapshotUpdate(@, body)]
            /\ Answer("subnet-snapshot", 200, sid, body)
    /\ UNCHANGED <<minerHistory, rewardUpdates, inflight, nextUuid, now>>

\* ---------------------------------------------- POST /validation/:id/error
ErrorRecord(body) ==
    [stage |-> body.stage, message |-> body.message, stackTrace |-> body.stackTrace]

\* the record written with $set in place of $push: it replaces the log
LogErrorSet(sid, body) ==
    /\ IF body.stage = NoStr \/ body.message = NoStr
       THEN /\ Answer("error", 400, sid, body)
            /\ UNCHANGED sessions
       ELSE /\ sessions' =
                   IF FindOne(sid) = 0 THEN sessions
                   ELSE [sessions EXCEPT ![FindOne(sid)].validationErrors =
                            <<ErrorRecord(body)>>]
            /\ Answer("error", 200, sid, body)
    /\ UNCHANGED <<minerHistory, rewardUpdates, inflight, nextUuid, now>>

\* a missing session reported to the caller as not found
LogErrorNotFound(sid, body) ==
    /\ IF body.stage = NoStr \/ body.message = NoStr
       THEN /\ Answer("error", 400, sid, body)
            /\ UNCHANGED sessions
       ELSE IF FindOne(sid) = 0
       THEN /\ Answer("error", 404, sid, body)
            /\ UNCHANGED sessions
       ELSE /\ sessions' = [sessions EXCEPT ![FindOne(sid)].validationErrors =
                                Append(@, ErrorRecord(body))]
            /\ Answer("error", 200, sid, body)
    /\ UNCHANGED <<minerHistory, rewardUpdates, inflight, nextUuid, now>>

LogError(sid, body) ==
    /\ IF body.stage = NoStr \/ body.message = NoStr
       THEN /\ Answer("error", 400, sid, body)
            /\ UNCHANGED sessions
       ELSE /\ sessions' =
                   IF FindOne(sid) = 0 THEN sessions
                   ELSE [sessions EXCEPT ![FindOne(sid)].validationErrors =
                            Append(@, ErrorRecord(body))]
            /\ Answer("error", 200, sid, body)
    /\ UNCHANGED <<minerHistory, rewardUpdates, inflight, nextUuid, now>>

\* ------------------------------------------- POST /validation/:id/complete
CompleteStateFailed == "failed"

\* the state the complete handler writes
CompleteState == "completed"

\* metrics written as one object: the sub-fields not sent are lost
CompleteUpdateReplace(doc, body) ==
    [doc EXCEPT !.state = CompleteState, !.metrics = body.metrics]

CompleteUpdate(doc, body) ==
    [doc EXCEPT
        !.state = CompleteState,
        !.metrics =
            [totalQueryTime |-> SetPath(@.totalQueryTime, body.metrics.totalQueryTime),
             averageRewardScore |->
                 SetPath(@.averageRewardScore, body.metrics.averageRewardScore),
             successRate |-> SetPath(@.successRate, body.metrics.successRate),
             failureCount |-> SetPath(@.failureCount, body.metrics.failureCount),
             validFindings |-> SetPath(@.validFindings, body.metrics.validFindings)]]

\* the update made an upsert: a session is created when none matches
CompleteSessionUpsert(sid, body) ==
    /\ IF FindOne(sid) = 0
       THEN /\ Len(sessions) < MaxSessions
            /\ sessions' =
                   Append(sessions,
                          CompleteUpdate(
                              [NewSession(sid, [sampledMinerCount |-> Undefined,
                                                sampledMinerUids |-> Arr(<<>>),
                                                validatorAddress |-> NoStr,
                                                configVersion |-> NoStr], now)
                                  EXCEPT !.sampledMinerCount = Undefined],
                              body))
            /\ Answer("complete", 200, sid, body)
       ELSE /\ sessions' = [sessions EXCEPT ![FindOne(sid)] = CompleteUpdate(@, body)]
            /\ Answer("complete", 200, sid, body)
    /\ UNCHANGED <<minerHistory, rewardUpdates, inflight, nextUuid, now>>

CompleteSession(sid, body) ==
    /\ IF FindOne(sid) = 0
       THEN /\ Answer("complete", 404, sid, body)
            /\ UNCHANGED sessions
       ELSE /\ sessions' = [sessions EXCEPT ![FindOne(sid)] = CompleteUpdate(@, body)]
            /\ Answer("complete", 200, sid, body)
    /\ UNCHANGED <<minerHistory, rewardUpdates, inflight, nextUuid, now>>

\* ------------------------------------------------ GET /validation/:id
\* findOne without its filter: the first session of the collection
GetSessionUnfiltered(sid) ==
    /\ IF FindOne(sid) = 0
       THEN Answer("get-session", 404, sid, <<>>)
       ELSE Answer("get-session", 200, sid, sessions[1])
    /\ UNCHANGED <<sessions, minerHistory, rewardUpdates, inflight, nextUuid, now>>

\* findOne and the document as the response's data
GetSession(sid) ==
    /\ IF FindOne(sid) = 0
       THEN Answer("get-session", 404, sid, <<>>)
       ELSE Answer("get-session", 200, sid, sessions[FindOne(sid)])
    /\ UNCHANGED <<sessions, minerHistory, rewardUpdates, inflight, nextUuid, now>>

\* ------------------------------------------------------------ analytics
\* The clock counts days: time passes until the clock reads the given day.
AdvanceTo(day) ==
    /\ now < day
    /\ day <= MaxDays
    /\ now' = day
    /\ UNCHANGED <<sessions, minerHistory, rewardUpdates, inflight, last, nreq, nextUuid>>

\* the record of a read: the query it answers and the data sent
Reply(request, data) == [request |-> request, data |-> data]

\* a read request is received and answered
Query(op, code, request, data) ==
    /\ Answer(op, code, 0, Reply(request, data))
    /\ UNCHANGED <<sessions, minerHistory, rewardUpdates, inflight, nextUuid, now>>

\* startDate: now less 24 hours, 7 days or 30 days, and now itself for any
\* other timeRange
StartDate(timeRange) ==
    CASE timeRange = "24h" -> now - 1
      [] timeRange = "7d" -> now - 7
      [] timeRange = "30d" -> now - 30
      [] OTHER -> now

\* ------------------------------------ GET /validation/sessions/stats
NoStats ==
    [totalSessions |-> Num(0), completedSessions |-> Num(0),
     failedSessions |-> Num(0), avgRewardScore |-> Num(0),
     totalMinersQueried |-> Num(0), avgQueryTime |-> Num(0)]

\* the $group stage over the matched sessions
StatsGroup(docs) ==
    [totalSessions |-> Num(Len(docs)),
     completedSessions |->
         Num(Len(SelectSeq(docs, LAMBDA d : d.state = "completed"))),
     failedSessions |-> Num(Len(SelectSeq(docs, LAMBDA d : d.state = "failed"))),
     avgRewardScore |->
         Avg([i \in Indices(docs) |-> docs[i].metrics.averageRewardScore]),
     totalMinersQueried |->
         SumNumbers([i \in Indices(docs) |-> docs[i].sampledMinerCount]),
     avgQueryTime |-> Avg([i \in Indices(docs) |-> docs[i].metrics.totalQueryTime])]

\* the group computed over no session in place of the zeroed record
SessionStatsGrouped(timeRange) ==
    LET docs == SelectSeq(sessions, LAMBDA d : d.timestamp >= StartDate(timeRange))
    IN  Query("stats", 200, [timeRange |-> timeRange], StatsGroup(docs))

\* the aggregate ($match on the window, $group) and the zeroed record in
\* place of stats[0] when no session matched
SessionStats(timeRange) ==
    LET docs == SelectSeq(sessions, LAMBDA d : d.timestamp >= StartDate(timeRange))
    IN  Query("stats", 200, [timeRange |-> timeRange],
              IF docs = <<>> THEN NoStats ELSE StatsGroup(docs))

\* ------------------------------------------ GET /miners/:minerUid/history
\* cursor.limit(n): a limit of 0 is no limit
Limit(docs, n) == IF n = 0 THEN docs ELSE SubSeq(docs, 1, Min(n, Len(docs)))

NoMinerStats ==
    [avgReward |-> Num(0), totalParticipations |-> Num(0), successCount |-> Num(0),
     failureCount |-> Num(0), avgAccuracy |-> Num(0)]

\* the $group stage over the entries of one miner (none of them has accuracy)
MinerStats(docs) ==
    [avgReward |-> Avg([i \in Indices(docs) |-> docs[i].rewardScore]),
     totalParticipations |-> Num(Len(docs)),
     successCount |-> Num(Len(SelectSeq(docs, LAMBDA d : d.status = "success"))),
     failureCount |-> Num(Len(SelectSeq(docs, LAMBDA d : d.status = "failed"))),
     avgAccuracy |-> Null]

\* the handler up to its second await: find sorted by timestamp descending
\* (entries of one timestamp in any order) and limited
GetMinerHistoryFind(minerUid, limit) ==
    LET own == SelectSeq(minerHistory, LAMBDA d : d.minerUid = ParseInt(minerUid))
    IN  /\ nreq < MaxOps
        /\ Cardinality(inflight) < MaxInflight
        /\ nreq' = nreq + 1
        /\ \E order \in Orderings(Len(own)) :
               /\ \A i, j \in Indices(own) :
                      i < j => own[order[i]].timestamp >= own[order[j]].timestamp
               /\ inflight' = inflight \cup
                      {[Request(nreq + 1, "miner-history", "aggregate", 0,
                                [minerUid |-> minerUid, limit |-> limit])
                           EXCEPT !.loaded =
                               [history |->
                                   Limit([i \in Indices(own) |-> own[order[i]]], limit)]]}
        /\ UNCHANGED <<sessions, minerHistory, rewardUpdates, last, nextUuid, now>>

\* the aggregate over all entries of the miner, and the response
GetMinerHistoryStats(r) ==
    LET own == SelectSeq(minerHistory, LAMBDA d : d.minerUid = ParseInt(r.body.minerUid))
    IN  /\ r.op = "miner-history" /\ r.pc = "aggregate"
        /\ inflight' = inflight \ {r}
        /\ last' = Response(r.id, "miner-history", 200, 0,
                            Reply(r.body,
                                  [minerUid |-> ParseInt(r.body.minerUid),
                                   history |-> r.loaded.history,
                                   stats |-> IF own = <<>> THEN NoMinerStats
                                             ELSE MinerStats(own)]))
        /\ UNCHANGED <<sessions, minerHistory, rewardUpdates, nreq, nextUuid, now>>

\* ------------------------------------------------------ GET /leaderboard
\* the $group stage: one document per minerUid of the matched entries
BoardGroup(docs, uid) ==
    LET own == SelectSeq(docs, LAMBDA d : d.minerUid = uid)
    IN  [minerUid |-> uid,
         totalRewards |-> SumNumbers([i \in Indices(own) |-> own[i].rewardScore]),
         participationCount |-> Len(own),
         successCount |-> Len(SelectSeq(own, LAMBDA d : d.status = "success"))]

\* the entry of the response made of the group at position idx
BoardEntry(group, idx) ==
    [rank |-> idx,
     minerUid |-> group.minerUid,
     totalRewards |-> group.totalRewards,
     participationCount |-> group.participationCount]

\* the groups sorted by participationCount instead of totalRewards
LeaderboardByCount(timeRange, limit) ==
    LET docs == SelectSeq(minerHistory, LAMBDA d : d.timestamp >= StartDate(timeRange))
        uids == {docs[i].minerUid : i \in Indices(docs)}
        n == Cardinality(uids)
    IN  IF limit <= 0
        THEN Query("leaderboard", 500, [timeRange |-> timeRange, limit |-> limit], <<>>)
        ELSE \E groups \in [1..n -> {BoardGroup(docs, uid) : uid \in uids}] :
                /\ \A i, j \in 1..n : i # j => groups[i] # groups[j]
                /\ \A i, j \in 1..n :
                       i < j => groups[j].participationCount <= groups[i].participationCount
                /\ Query("leaderboard", 200,
                         [timeRange |-> timeRange, limit |-> limit],
                         [i \in 1..Min(limit, n) |-> BoardEntry(groups[i], i)])

\* the aggregate ($match, $group, $sort by totalRewards descending with ties
\* in any order, $limit, which the store refuses when it is not positive)
\* and the ranks given by position
Leaderboard(timeRange, limit) ==
    LET docs == SelectSeq(minerHistory, LAMBDA d : d.timestamp >= StartDate(timeRange))
        uids == {docs[i].minerUid : i \in Indices(docs)}
        n == Cardinality(uids)
    IN  IF limit <= 0
        THEN Query("leaderboard", 500, [timeRange |-> timeRange, limit |-> limit], <<>>)
        ELSE \E groups \in [1..n -> {BoardGroup(docs, uid) : uid \in uids}] :
                /\ \A i, j \in 1..n : i # j => groups[i] # groups[j]
                /\ \A i, j \in 1..n :
                       i < j => Leq(groups[j].totalRewards, groups[i].totalRewards)
                /\ Query("leaderboard", 200,
                         [timeRange |-> timeRange, limit |-> limit],
                         [i \in 1..Min(limit, n) |-> BoardEntry(groups[i], i)])

\* --------------------------------------- GET /project/:projectId/summary
\* a Date as a response field
DateValue(t) == [k |-> "date", num |-> t, den |-> 1]

\* sessions.map(...): the row of one session
SummaryRow(doc) ==
    [sessionId |-> doc.sessionId, timestamp |-> doc.timestamp, state |-> doc.state,
     sampledMinerCount |-> doc.sampledMinerCount,
     avgRewardScore |-> doc.metrics.averageRewardScore]

Summary(projectId, docs) ==
    [projectId |-> projectId,
     totalValidationRuns |-> Num(Len(docs)),
     successfulRuns |-> Num(Len(SelectSeq(docs, LAMBDA d : d.state = "completed"))),
     failedRuns |-> Num(Len(SelectSeq(docs, LAMBDA d : d.state = "failed"))),
     totalMinersQueried |->
         SumNumbers([i \in Indices(docs) |-> OrZero(docs[i].sampledMinerCount)]),
     avgRewardScore |->
         DivideBy(SumNumbers([i \in Indices(docs) |->
                                 OrZero(docs[i].metrics.averageRewardScore)]),
                  Len(docs)),
     lastRun |-> IF docs = <<>> THEN Null ELSE DateValue(docs[1].timestamp),
     sessions |-> [i \in Indices(docs) |-> SummaryRow(docs[i])]]

\* the sessions of every project summed up instead of those of the one asked
ProjectSummaryUnfiltered(projectId) ==
    \E order \in Orderings(Len(sessions)) :
        /\ \A i, j \in Indices(sessions) :
               i < j => sessions[order[i]].timestamp >= sessions[order[j]].timestamp
        /\ Query("project-summary", 200, [projectId |-> projectId],
                 Summary(projectId, [i \in Indices(sessions) |-> sessions[order[i]]]))

\* find({ projectId }) sorted by timestamp descending (sessions of one
\* timestamp in any order) and the summary computed over them
ProjectSummary(projectId) ==
    LET own == SelectSeq(sessions, LAMBDA d : d.projectId = projectId)
    IN  \E order \in Orderings(Len(own)) :
            /\ \A i, j \in Indices(own) :
                   i < j => own[order[i]].timestamp >= own[order[j]].timestamp
            /\ Query("project-summary", 200, [projectId |-> projectId],
                     Summary(projectId, [i \in Indices(own) |-> own[order[i]]]))

\* ------------------------------------------------------------ requests
\* The session ids a caller sends: those of the sessions, and one of none.
Sids == SessionIds \cup {0}

StartBody(count, uids) ==
    [sampledMinerCount |-> count, sampledMinerUids |-> uids,
     validatorAddress |-> "5Fval", configVersion |-> NoStr]

ChallengeBody(projectId, description) ==
    [projectId |-> projectId, description |-> description,
     difficulty |-> NoStr, rawData |-> description]

GroundTruthBody(reportId, vulnerabilities) ==
    [reportId |-> reportId, vulnerabilities |-> vulnerabilities,
     criticalIssues |-> Undefined, rawData |-> NoStr]

ResponseBody(minerUid, responseTime) ==
    [minerUid |-> minerUid, githubUrl |-> NoStr, responseTime |-> responseTime,
     success |-> TRUE, errorMessage |-> NoStr, agentPerformance |-> "{}"]

RewardBody(minerUid, rewardScore, rewardReason) ==
    [minerUid |-> minerUid, rewardScore |-> rewardScore, rewardReason |-> rewardReason]

BatchBody(minerUids, rewards) == [minerUids |-> minerUids, rewards |-> rewards]

SnapshotBody(netuid, block) ==
    [netuid |-> netuid, block |-> block, activeValidators |-> Undefined,
     activeMiners |-> Num(1), totalStake |-> Undefined, emissionPerBlock |-> Undefined]

ErrorBody(stage, message) == [stage |-> stage, message |-> message, stackTrace |-> NoStr]

MetricsBody(totalQueryTime, averageRewardScore) ==
    [metrics |-> [NoMetrics EXCEPT !.totalQueryTime = totalQueryTime,
                                   !.averageRewardScore = averageRewardScore]]

StartBodies == {StartBody(Undefined, Arr(<<Num(1)>>)), StartBody(Undefined, NotArray)}
ChallengeBodies ==
    {ChallengeBody("p1", "d1"), ChallengeBody("p2", NoStr), ChallengeBody(NoStr, "d1")}
GroundTruthBodies == {GroundTruthBody("r1", NotArray)}
ResponseBodies == {ResponseBody(Num(1), Num(1)), ResponseBody(BadStr, Num(1))}
RewardBodies == {RewardBody(Num(1), Num(1), NoStr), RewardBody(BadStr, Num(1), NoStr)}
BatchBodies ==
    {BatchBody(Arr(<<Num(1)>>), Arr(<<Num(1)>>)), BatchBody(Arr(<<Num(1)>>), Arr(<<>>)),
     BatchBody(Arr(<<Num(1)>>), NotArray)}
SnapshotBodies == {SnapshotBody(Num(1), Num(1)), SnapshotBody(Num(1), Undefined)}
ErrorBodies ==
    {ErrorBody("query", "timeout"), ErrorBody("query", NoStr), ErrorBody(NoStr, "timeout")}
CompleteBodies == {MetricsBody(Undefined, Undefined)}

Next ==
    \/ \E body \in StartBodies : StartValidation(body)
    \/ \E sid \in Sids, body \in ChallengeBodies : RecordChallenge(sid, body)
    \/ \E sid \in Sids, body \in GroundTruthBodies : RecordGroundTruth(sid, body)
    \/ \E sid \in Sids, body \in ResponseBodies : RecordMinerResponse(sid, body)
    \/ \E sid \in Sids, body \in RewardBodies : MinerRewardPatch(sid, body)
    \/ \E r \in inflight : MinerRewardHistory(r)
    \/ \E sid \in Sids, body \in BatchBodies : RewardsUpdateLog(sid, body)
    \/ \E r \in inflight : RewardsUpdateFind(r)
    \/ \E r \in inflight : RewardsUpdateSave(r)
    \/ \E sid \in Sids, body \in SnapshotBodies : RecordSubnetSnapshot(sid, body)
    \/ \E sid \in Sids, body \in ErrorBodies : LogError(sid, body)
    \/ \E sid \in Sids, body \in CompleteBodies : CompleteSession(sid, body)

Spec == Init /\ [][Next]_vars

\* Session creation with every kind of count and list, between other writes.
CountInputs == {Undefined, Num(0), Num(3)}
UidLists == {<<>>, <<Num(1), Num(2), Num(3)>>}
StartInputs ==
    {StartBody(c, Arr(u)) : c \in CountInputs, u \in UidLists}
        \cup {StartBody(Undefined, NotArray)}

NextStart ==
    \/ \E body \in StartInputs : StartValidation(body)
    \/ \E sid \in Sids : RecordChallenge(sid, ChallengeBody("p1", "d1"))
    \/ \E sid \in Sids : RecordMinerResponse(sid, ResponseBody(Num(1), Num(1)))

SpecStart == Init /\ [][NextStart]_vars

\* The typed arguments with every kind of value a JSON body can carry for
\* them: an integer, a number that is no integer (1.5), a string, nothing.
TypedInputs == {Num(1), Half(3), BadStr, Undefined}
UidListInputs ==
    {NotArray, Arr(<<Num(1)>>), Arr(<<Half(3)>>), Arr(<<BadStr>>), Arr(<<NumStr(7)>>)}

NextTypes ==
    \/ \E uids \in UidListInputs : StartValidation(StartBody(Undefined, uids))
    \/ \E sid \in Sids, uid \in TypedInputs :
           RecordMinerResponse(sid, ResponseBody(uid, Num(1)))
    \/ \E sid \in Sids, uid \in TypedInputs :
           MinerRewardPatch(sid, RewardBody(uid, Num(1), NoStr))
    \/ \E r \in inflight : MinerRewardHistory(r)
    \/ \E sid \in Sids, netuid \in TypedInputs, block \in TypedInputs :
           RecordSubnetSnapshot(sid, SnapshotBody(netuid, block))

SpecTypes == Init /\ [][NextTypes]_vars

\* Responses and per-miner rewards: two miners, scores of each sign, the
\* reason given or omitted.
MinerInputs == {Num(1), Num(2)}
ScoreInputs == {Num(2), Num(0), Num(-1)}
ReasonInputs == {"good", NoStr}

NextReward ==
    \/ StartValidation(StartBody(Undefined, Arr(<<Num(1), Num(2)>>)))
    \/ \E sid \in Sids, uid \in MinerInputs :
           RecordMinerResponse(sid, ResponseBody(uid, Num(1)))
    \/ \E sid \in Sids, uid \in MinerInputs, score \in ScoreInputs,
             reason \in ReasonInputs :
           MinerRewardPatch(sid, RewardBody(uid, score, reason))
    \/ \E r \in inflight : MinerRewardHistory(r)

SpecReward == Init /\ [][NextReward]_vars

\* Reward batches on one session, concurrent with each other and with a
\* completion that supplies metrics.
BatchInputs ==
    {BatchBody(Arr(<<Num(1), Num(2)>>), Arr(<<Num(5), Num(-1)>>)),
     BatchBody(Arr(<<Num(1), Num(2), Num(3)>>), Arr(<<Num(1), Num(0), Num(-2)>>)),
     BatchBody(Arr(<<>>), Arr(<<>>))}

\* a completion that sends two of the metrics, and one that sends no metrics
CompleteInputs == {MetricsBody(Num(9), Num(7)), MetricsBody(Undefined, Undefined)}

NextBatch ==
    \/ StartValidation(StartBody(Undefined, Arr(<<Num(1), Num(2)>>)))
    \/ \E sid \in Sids, body \in BatchInputs : RewardsUpdateLog(sid, body)
    \/ \E r \in inflight : RewardsUpdateFind(r)
    \/ \E r \in inflight : RewardsUpdateSave(r)
    \/ \E sid \in Sids, body \in CompleteInputs : CompleteSession(sid, body)

SpecBatch == Init /\ [][NextBatch]_vars

\* Reward batches only, concurrent with each other: no completion is sent.
NextBatchesOnly ==
    \/ StartValidation(StartBody(Undefined, Arr(<<Num(1), Num(2)>>)))
    \/ \E sid \in Sids, body \in BatchInputs : RewardsUpdateLog(sid, body)
    \/ \E r \in inflight : RewardsUpdateFind(r)
    \/ \E r \in inflight : RewardsUpdateSave(r)

SpecBatchesOnly == Init /\ [][NextBatchesOnly]_vars

\* Rewards and reward batches whose second store call may be rejected by
\* the store: one miner's response, one reward, a batch of two and the
\* empty batch.
FailureRewards == {RewardBody(Num(1), Num(2), "good")}
FailureBatches ==
    {BatchBody(Arr(<<Num(1), Num(2)>>), Arr(<<Num(5), Num(-1)>>)),
     BatchBody(Arr(<<>>), Arr(<<>>))}

NextFailure ==
    \/ StartValidation(StartBody(Undefined, Arr(<<Num(1), Num(2)>>)))
    \/ \E sid \in Sids : RecordMinerResponse(sid, ResponseBody(Num(1), Num(1)))
    \/ \E sid \in Sids, body \in FailureRewards : MinerRewardPatch(sid, body)
    \/ \E r \in inflight : MinerRewardHistory(r)
    \/ \E r \in inflight : MinerRewardHistoryFails(r)
    \/ \E sid \in Sids, body \in FailureBatches : RewardsUpdateLog(sid, body)
    \/ \E r \in inflight : RewardsUpdateFind(r)
    \/ \E r \in inflight : RewardsUpdateSave(r)
    \/ \E r \in inflight : RewardsUpdateSaveFails(r)

SpecFailure == Init /\ [][NextFailure]_vars

\* Every single-document write followed by reads of the session: the values
\* written, a second write of the same fields, and session ids of no session.
ReadChallenges == {ChallengeBody("p1", "d1"), ChallengeBody("p2", NoStr)}
ReadGroundTruths == {GroundTruthBody("r1", Arr(<<"v1">>)), GroundTruthBody(NoStr, NotArray)}
ReadResponses == {ResponseBody(Num(1), Num(3)), ResponseBody(Num(2), Half(3))}
ReadRewards == {RewardBody(Num(1), Num(2), "good"), RewardBody(Num(1), Num(-1), NoStr)}
ReadSnapshots == {SnapshotBody(Num(1), Num(1)), SnapshotBody(Num(2), Num(5))}

NextRead ==
    \/ StartValidation(StartBody(Undefined, Arr(<<Num(1), Num(2)>>)))
    \/ \E sid \in Sids, body \in ReadChallenges : RecordChallenge(sid, body)
    \/ \E sid \in Sids, body \in ReadGroundTruths : RecordGroundTruth(sid, body)
    \/ \E sid \in Sids, body \in ReadResponses : RecordMinerResponse(sid, body)
    \/ \E sid \in Sids, body \in ReadRewards : MinerRewardPatch(sid, body)
    \/ \E r \in inflight : MinerRewardHistory(r)
    \/ \E sid \in Sids, body \in ReadSnapshots : RecordSubnetSnapshot(sid, body)
    \/ \E sid \in Sids : LogError(sid, ErrorBody("query", "timeout"))
    \/ \E sid \in Sids : CompleteSession(sid, MetricsBody(Num(9), Undefined))
    \/ \E sid \in Sids : GetSession(sid)

SpecRead == Init /\ [][NextRead]_vars

\* Every operation once, with the server clock advancing between requests.
Tick ==
    /\ now < MaxTime
    /\ now' = now + 1
    /\ UNCHANGED <<sessions, minerHistory, rewardUpdates, inflight, last, nreq, nextUuid>>

NextClock ==
    \/ Tick
    \/ StartValidation(StartBody(Num(2), Arr(<<Num(1), Num(2)>>)))
    \/ \E sid \in Sids : RecordChallenge(sid, ChallengeBody("p1", "d1"))
    \/ \E sid \in Sids : RecordGroundTruth(sid, GroundTruthBody("r1", NotArray))
    \/ \E sid \in Sids : RecordMinerResponse(sid, ResponseBody(Num(1), Num(1)))
    \/ \E sid \in Sids : MinerRewardPatch(sid, RewardBody(Num(1), Num(1), NoStr))
    \/ \E r \in inflight : MinerRewardHistory(r)
    \/ \E sid \in Sids :
           RewardsUpdateLog(sid, BatchBody(Arr(<<Num(1)>>), Arr(<<Num(1)>>)))
    \/ \E r \in inflight : RewardsUpdateFind(r)
    \/ \E r \in inflight : RewardsUpdateSave(r)
    \/ \E sid \in Sids : RecordSubnetSnapshot(sid, SnapshotBody(Num(1), Num(1)))
    \/ \E sid \in Sids : LogError(sid, ErrorBody("query", "timeout"))
    \/ \E sid \in Sids : CompleteSession(sid, MetricsBody(Num(9), Undefined))

SpecClock == Init /\ [][NextClock]_vars

\* The analytics. A behaviour starts at day 0 where one session has been
\* through createSession([1,2], 3), recordChallenge for project p1, a
\* recordMinerResponse of each of the two miners and completeSession with
\* two metrics; its requests are counted from there.
PreparedSession ==
    CompleteUpdate(
        [ChallengeUpdate(NewSession(1, StartBody(Num(3), Arr(<<Num(1), Num(2)>>)), 0),
                         ChallengeBody("p1", NoStr))
            EXCEPT !.minerResponses =
                <<ResponseRecord(ResponseBody(Num(1), Num(1))),
                  ResponseRecord(ResponseBody(Num(2), Num(1)))>>],
        MetricsBody(Num(9), Num(7)))

InitPrepared ==
    /\ sessions = <<PreparedSession>>
    /\ minerHistory = <<>>
    /\ rewardUpdates = <<>>
    /\ inflight = {}
    /\ last = NoResponse
    /\ nreq = 0
    /\ nextUuid = 2
    /\ now = 0

\* the rewards recorded, one after the other: miner 1 gains or loses, miner
\* 2 gains, so that the totals of the two can be equal or either way round
BoardRewards ==
    {RewardBody(Num(1), Num(2), NoStr), RewardBody(Num(1), Num(-1), NoStr),
     RewardBody(Num(2), Num(2), NoStr)}
\* the days at which the clock is read again: entries made at day 0 are then
\* outside the window of 24 hours, of 7 days and of 30 days
Days == {2, 8, 31}
TimeRanges == {"24h", "7d", "30d"}
Limits == {0, 1, 2}

NextBoard ==
    \/ \E sid \in SessionIds, body \in BoardRewards :
           inflight = {} /\ MinerRewardPatch(sid, body)
    \/ \E r \in inflight : MinerRewardHistory(r)
    \/ \E day \in Days : AdvanceTo(day)
    \/ \E timeRange \in TimeRanges, limit \in Limits : Leaderboard(timeRange, limit)

SpecBoard == InitPrepared /\ [][NextBoard]_vars

NextMinerHistory ==
    \/ \E sid \in SessionIds, body \in BoardRewards :
           inflight = {} /\ MinerRewardPatch(sid, body)
    \/ \E r \in inflight : MinerRewardHistory(r)
    \/ AdvanceTo(2)
    \/ \E uid \in MinerInputs \cup {Num(3)}, limit \in Limits :
           GetMinerHistoryFind(uid, limit)
    \/ \E r \in inflight : GetMinerHistoryStats(r)

SpecMinerHistory == InitPrepared /\ [][NextMinerHistory]_vars

\* The analytics over the sessions: a second session created on another
\* day, with no count supplied, challenged for either project and completed.
Projects == {"p1", "p2"}

NextStats ==
    \/ StartValidation(StartBody(Undefined, Arr(<<Num(1), Num(2)>>)))
    \/ \E sid \in Sids, projectId \in Projects :
           RecordChallenge(sid, ChallengeBody(projectId, NoStr))
    \/ \E sid \in Sids, body \in CompleteInputs : CompleteSession(sid, body)
    \/ \E day \in Days : AdvanceTo(day)
    \/ \E timeRange \in TimeRanges : SessionStats(timeRange)
    \/ \E projectId \in Projects \cup {"p3"} : ProjectSummary(projectId)

SpecStats == InitPrepared /\ [][NextStats]_vars

\* ------------------------------------------------------------- properties
\* the documented order pending < in-progress < completed
Rank(state) ==
    CASE state = "pending" -> 0
      [] state = "in-progress" -> 1
      [] state = "completed" -> 2
      [] OTHER -> 3

\* this step sent the response of a request
Responded == last'.id # last.id

RespondedWith(op, code) == Responded /\ last'.op = op /\ last'.code = code

\* C1: a session's state never moves backward in the order
\* pending < in-progress < completed under any sequence of the operations;
\* in particular a completed session stays completed.
C1_StateOnlyAdvances ==
    [][\A i \in Indices(sessions) :
          Rank(sessions'[i].state) >= Rank(sessions[i].state)]_vars

\* C3: every state change made by an operation is either
\* pending -> in-progress by recordChallenge or in-progress -> completed by
\* completeSession, so a completed session was in-progress before.
C3_LifecycleEdges ==
    [][\A i \in Indices(sessions) :
          sessions'[i].state # sessions[i].state =>
              \/ /\ sessions[i].state = "pending"
                 /\ sessions'[i].state = "in-progress"
                 /\ RespondedWith("challenge", 200)
              \/ /\ sessions[i].state = "in-progress"
                 /\ sessions'[i].state = "completed"
                 /\ RespondedWith("complete", 200)]_vars

\* C4: in every reachable state every session's state is pending,
\* in-progress or completed: no operation writes failed.
C4_NeverFailed ==
    \A i \in Indices(sessions) :
        sessions[i].state \in {"pending", "in-progress", "completed"}

\* two sessions, one completed and one re-opened or in progress, after four
\* requests
C4_Witness ==
    /\ nreq = MaxOps
    /\ \E i, j \in Indices(sessions) :
           sessions[i].state = "completed" /\ sessions[j].state = "in-progress"

\* the session a response is about, before and after the step
Doc(sid) == sessions[FindOne(sid)]
DocAfter(sid) == sessions'[FindOne(sid)]

\* C2 as claimed: after recordChallenge on an existing session the state is
\* in-progress and challengeInfo (projectId, description, difficulty,
\* rawData) equals the data of that call, also on a second call.
C2_ChallengeEqualsCall ==
    [][RespondedWith("challenge", 200) =>
          /\ DocAfter(last'.sid).state = "in-progress"
          /\ DocAfter(last'.sid).challengeInfo =
                 [projectId |-> last'.body.projectId,
                  description |-> last'.body.description,
                  difficulty |-> last'.body.difficulty,
                  rawData |-> last'.body.rawData]]_vars

\* what a path holds after a call that may have omitted it
Patched(old, sent) == IF sent = NoStr THEN old ELSE sent

\* C2 as amended: whatever the state before, recordChallenge on an existing
\* session leaves the state in-progress, challengeInfo.projectId equal to the
\* call's projectId, and each of description, difficulty and rawData equal
\* to the call's value when the call supplies one and as it was before when
\* the call omits it; this holds for a second call as well.
C2_ChallengePatches ==
    [][RespondedWith("challenge", 200) =>
          /\ FindOne(last'.sid) # 0
          /\ DocAfter(last'.sid).state = "in-progress"
          /\ DocAfter(last'.sid).challengeInfo =
                 [projectId |-> last'.body.projectId,
                  description |->
                      Patched(Doc(last'.sid).challengeInfo.description,
                              last'.body.description),
                  difficulty |->
                      Patched(Doc(last'.sid).challengeInfo.difficulty,
                              last'.body.difficulty),
                  rawData |->
                      Patched(Doc(last'.sid).challengeInfo.rawData,
                              last'.body.rawData)]]_vars

\* a second recordChallenge that omitted description has been answered: the
\* project is the second call's, the description still the first call's
C2_Witness ==
    /\ last.op = "challenge" /\ last.code = 200
    /\ last.body.description = NoStr
    /\ Doc(last.sid).state = "in-progress"
    /\ Doc(last.sid).challengeInfo.projectId = "p2"
    /\ Doc(last.sid).challengeInfo.description = "d1"

\* what createSession leaves in every path but sampledMinerCount
CreatedWith(doc, body) ==
    /\ doc.state = "pending"
    /\ doc.minerResponses = <<>>
    /\ doc.computedRewards = <<>>
    /\ doc.validationErrors = <<>>
    /\ doc.sampledMinerUids = body.sampledMinerUids.elems
    /\ doc.sessionId \notin SessionIds

\* C5: createSession with a valid list adds exactly one session,
\* pending, with empty minerResponses, computedRewards and validationErrors,
\* sampledMinerUids equal to the argument, and sampledMinerCount equal to the
\* supplied count or, when none is supplied, the length of the list; the
\* existing sessions are unchanged.
C5_CreateUsesSuppliedCount ==
    [][RespondedWith("start", 201) =>
          /\ Len(sessions') = Len(sessions) + 1
          /\ SubSeq(sessions', 1, Len(sessions)) = sessions
          /\ CreatedWith(sessions'[Len(sessions')], last'.body)
          /\ sessions'[Len(sessions')].sampledMinerCount =
                 IF last'.body.sampledMinerCount # Undefined
                 THEN last'.body.sampledMinerCount
                 ELSE Num(Len(last'.body.sampledMinerUids.elems))]_vars

\* what the handler does with the count: sampledMinerCount || length takes
\* a supplied 0 for an absent count and stores the length of the list
C5_ZeroCountReplaced ==
    [][RespondedWith("start", 201) =>
          /\ Len(sessions') = Len(sessions) + 1
          /\ SubSeq(sessions', 1, Len(sessions)) = sessions
          /\ CreatedWith(sessions'[Len(sessions')], last'.body)
          /\ sessions'[Len(sessions')].sampledMinerCount =
                 IF last'.body.sampledMinerCount \notin {Undefined, Num(0)}
                 THEN last'.body.sampledMinerCount
                 ELSE Num(Len(last'.body.sampledMinerUids.elems))]_vars

\* C6: a request answered with a validation error (status 400) has changed
\* nothing: the sessions, the MinerHistory log and the RewardUpdate log are
\* as before the call, and nothing of the request is left running.
C6_RejectedNoMutation ==
    [][Responded /\ last'.code = 400 => store' = store /\ inflight' = inflight]_vars

\* a batch with arrays of different lengths was rejected while the store
\* holds a session and a RewardUpdate entry of an earlier batch
C6_Witness ==
    /\ last.op = "rewards-update" /\ last.code = 400
    /\ last.body.minerUids.isArray /\ last.body.rewards.isArray
    /\ Len(sessions) > 0
    /\ Len(rewardUpdates) = 1

\* the minerUid of every response and of every MinerHistory entry
StoredMinerUids ==
    UNION {{sessions[i].minerResponses[j].minerUid :
               j \in Indices(sessions[i].minerResponses)} : i \in Indices(sessions)}
        \cup {minerHistory[h].minerUid : h \in Indices(minerHistory)}

\* the elements of every session's sampledMinerUids
StoredSampledUids ==
    UNION {{sessions[i].sampledMinerUids[j] :
               j \in Indices(sessions[i].sampledMinerUids)} : i \in Indices(sessions)}

\* the netuid and block of every snapshot that was recorded
StoredSnapshotNumbers ==
    UNION {{sessions[i].subnetSnapshot.netuid, sessions[i].subnetSnapshot.block} :
              i \in Indices(sessions)} \ {Undefined}

\* C7 as claimed: createSession answers a validation error when
\* sampledMinerUids is no sequence or holds a non-integer, recordMinerResponse
\* and recordMinerReward when minerUid is no integer, recordSubnetSnapshot
\* when netuid or block is no integer; no such value is ever stored.
C7_IntegersEnforced ==
    /\ (/\ last.op = "start"
        /\ \/ ~last.body.sampledMinerUids.isArray
           \/ \E j \in Indices(last.body.sampledMinerUids.elems) :
                  ~(/\ last.body.sampledMinerUids.elems[j].k = "number"
                    /\ last.body.sampledMinerUids.elems[j].den = 1))
           => last.code = 400
    /\ (/\ last.op \in {"miner-response", "miner-reward"}
        /\ ~(last.body.minerUid.k = "number" /\ last.body.minerUid.den = 1))
           => last.code = 400
    /\ (/\ last.op = "subnet-snapshot"
        /\ \E v \in {last.body.netuid, last.body.block} :
               ~(v.k = "number" /\ v.den = 1))
           => last.code = 400
    /\ \A v \in StoredMinerUids \cup StoredSampledUids \cup StoredSnapshotNumbers :
           v.k = "number" /\ v.den = 1

\* C7 as amended: the typed inputs are checked for being numbers, not for
\* being integers. createSession answers a validation error when
\* sampledMinerUids is absent or no sequence (its elements are not checked by
\* the handler); recordMinerResponse and recordMinerReward when minerUid is
\* not a number; recordSubnetSnapshot when netuid or block is not a number.
\* No minerUid, netuid or block that is not a number is ever stored; a
\* number that is no integer, such as 1.5, is accepted and stored.
C7_NumbersEnforced ==
    /\ (last.op = "start" /\ ~last.body.sampledMinerUids.isArray)
           => last.code = 400
    /\ (/\ last.op \in {"miner-response", "miner-reward"}
        /\ last.body.minerUid.k # "number")
           => last.code = 400
    /\ (/\ last.op = "subnet-snapshot"
        /\ \E v \in {last.body.netuid, last.body.block} : v.k # "number")
           => last.code = 400
    /\ \A v \in StoredMinerUids \cup StoredSnapshotNumbers : v.k = "number"

\* a reward was recorded for minerUid 1.5: the response and the MinerHistory
\* entry hold 1.5, and a snapshot holds a block of 1.5
C7_Witness ==
    /\ last.op = "miner-reward" /\ last.code = 200
    /\ last.body.minerUid = Half(3)
    /\ \E h \in Indices(minerHistory) : minerHistory[h].minerUid = Half(3)
    /\ \E i \in Indices(sessions) :
           /\ sessions[i].minerResponses # <<>>
           /\ sessions[i].minerResponses[1].minerUid = Half(3)

\* the requests that this step took up without answering them yet
Accepted(op) == {r \in inflight' \ inflight : r.op = op}

\* the lowest position of a response of miner uid in a session's responses
LowestIndex(responses, uid) ==
    CHOOSE j \in Indices(responses) :
        /\ responses[j].minerUid = uid
        /\ \A h \in Indices(responses) : responses[h].minerUid = uid => j <= h

HasResponse(sid, uid) ==
    \E i \in Indices(sessions) :
        /\ sessions[i].sessionId = sid
        /\ \E j \in Indices(sessions[i].minerResponses) :
               sessions[i].minerResponses[j].minerUid = uid

\* the step that took up reward request r wrote its score, and `reason` as
\* the reason, into the lowest-indexed response of its miner and changed
\* nothing else
RewardPatchedTo(r, reason) ==
    LET old == Doc(r.sid).minerResponses
        j == LowestIndex(old, r.body.minerUid)
    IN  /\ HasResponse(r.sid, r.body.minerUid)
        /\ sessions' =
               [sessions EXCEPT ![FindOne(r.sid)].minerResponses[j] =
                   [old[j] EXCEPT !.rewardScore = r.body.rewardScore,
                                  !.rewardReason = reason]]
        /\ minerHistory' = minerHistory

\* the step that answered a reward request appended the one MinerHistory
\* entry of the call, with the status its score gives, and nothing else
RewardLogged ==
    RespondedWith("miner-reward", 200) =>
        /\ sessions' = sessions
        /\ Len(minerHistory') = Len(minerHistory) + 1
        /\ SubSeq(minerHistory', 1, Len(minerHistory)) = minerHistory
        /\ LET e == minerHistory'[Len(minerHistory')]
           IN  /\ e.sessionId = last'.sid
               /\ e.minerUid = last'.body.minerUid
               /\ e.rewardScore = last'.body.rewardScore
               /\ e.status = IF last'.body.rewardScore.num > 0
                             THEN "success" ELSE "failed"

\* C8 as claimed: recordMinerReward on a session that holds a response of
\* minerUid sets rewardScore and rewardReason of exactly the response with
\* the lowest append index for that uid to the call's values, leaves every
\* other response and every other field untouched, and appends exactly one
\* MinerHistory entry whose status is success if rewardScore > 0 and failed
\* otherwise.
C8_RewardSetsBoth ==
    [][/\ \A r \in Accepted("miner-reward") :
             RewardPatchedTo(r, r.body.rewardReason)
       /\ RewardLogged]_vars

\* C8 as amended: the same, except that rewardReason is set only when the
\* call supplies one: a call that omits rewardReason leaves the reason the
\* response already holds.
C8_RewardPatchesFirstResponse ==
    [][/\ \A r \in Accepted("miner-reward") :
             RewardPatchedTo(r,
                 Patched(Doc(r.sid).minerResponses[
                             LowestIndex(Doc(r.sid).minerResponses,
                                         r.body.minerUid)].rewardReason,
                         r.body.rewardReason))
       /\ RewardLogged]_vars

\* a reward for miner 1 was recorded on a session holding two responses of
\* miner 1: the first carries the score, the second none, and the history
\* has the one entry
C8_Witness ==
    /\ last.op = "miner-reward" /\ last.code = 200
    /\ last.body.minerUid = Num(1)
    /\ Len(minerHistory) = 1
    /\ LET rs == Doc(last.sid).minerResponses
       IN  /\ Len(rs) = 2
           /\ rs[1].minerUid = Num(1) /\ rs[2].minerUid = Num(1)
           /\ rs[1].rewardScore = last.body.rewardScore
           /\ rs[2].rewardScore = Undefined

\* C9: recordMinerReward for a (sessionId, minerUid) pair with no response
\* record (no such session, or a session with no response of that uid) is
\* answered not-found and has no effect: no session changes and no
\* MinerHistory entry is appended; a reward is taken up only when the pair
\* has a response.
C9_RewardWithoutResponse ==
    [][/\ RespondedWith("miner-reward", 404) =>
             /\ ~HasResponse(last'.sid, last'.body.minerUid)
             /\ store' = store
             /\ inflight' = inflight
       /\ (/\ Responded /\ last'.op = "miner-reward"
           /\ IsNumber(last'.body.minerUid)
           /\ ~HasResponse(last'.sid, last'.body.minerUid)) => last'.code = 404
       /\ \A r \in Accepted("miner-reward") : HasResponse(r.sid, r.body.minerUid)]_vars

\* a reward for miner 2 was refused on a session that holds a response of
\* miner 1 only, and the history is still empty
C9_Witness ==
    /\ last.op = "miner-reward" /\ last.code = 404
    /\ last.sid \in SessionIds
    /\ last.body.minerUid = Num(2)
    /\ Doc(last.sid).minerResponses # <<>>
    /\ \A j \in Indices(Doc(last.sid).minerResponses) :
           Doc(last.sid).minerResponses[j].rewardScore = Undefined
    /\ minerHistory = <<>>

\* the batch requests whose save this step performed
Saved ==
    {r \in inflight : /\ r.op = "rewards-update" /\ r.pc = "save"
                      /\ RespondedWith("rewards-update", 200)
                      /\ last'.id = r.id}

\* the batch requests whose save this step attempted on a session that no
\* other batch has saved since the request read it
Finished ==
    {r \in inflight \ inflight' : /\ r.op = "rewards-update" /\ r.pc = "save"
                                  /\ sessions[r.doc].version = r.version}

\* C10: recordRewardsBatch with equal-length sequences on an existing
\* session replaces computedRewards wholesale by exactly one
\* (minerUids[i], rewards[i]) entry per index in order (the previous entries
\* are gone), and sets metrics.successRate to 100 * |{i : rewards[i] > 0}| / n,
\* metrics.averageRewardScore to the mean of rewards and
\* metrics.failureCount to n minus the number of rewards > 0.
C10_BatchReplaces ==
    [][\A r \in Finished :
          LET uids == r.body.minerUids.elems
              rewards == r.body.rewards.elems
              n == Len(uids)
              k == Cardinality({i \in 1..n : rewards[i].num > 0})
              doc == sessions'[r.doc]
          IN  /\ Len(doc.computedRewards) = n
              /\ \A i \in 1..n :
                     doc.computedRewards[i] =
                         [minerUid |-> uids[i], score |-> rewards[i]]
              /\ n >= 1 =>
                     /\ doc.metrics.successRate.den > 0
                     /\ doc.metrics.successRate.num * n =
                            100 * k * doc.metrics.successRate.den
                     /\ doc.metrics.averageRewardScore.den > 0
                     /\ doc.metrics.averageRewardScore.num * n =
                            SumSeq(rewards) * doc.metrics.averageRewardScore.den
                     /\ doc.metrics.failureCount = Num(n - k)]_vars

\* the same for the batches of n >= 1 entries whose save succeeds: these
\* replace computedRewards and recompute the three metrics as stated; uids
\* [1,2] with rewards [5,-1] give 50, 2, 1 and two entries.
C10_SavedBatchRecomputes ==
    [][\A r \in Saved :
          LET uids == r.body.minerUids.elems
              rewards == r.body.rewards.elems
              n == Len(uids)
              k == Cardinality({i \in 1..n : rewards[i].num > 0})
              doc == DocAfter(r.sid)
          IN  /\ n >= 1
              /\ FindOne(r.sid) = r.doc
              /\ Len(doc.computedRewards) = n
              /\ \A i \in 1..n :
                     doc.computedRewards[i] =
                         [minerUid |-> uids[i], score |-> rewards[i]]
              /\ doc.metrics.successRate.den > 0
              /\ doc.metrics.successRate.num * n =
                     100 * k * doc.metrics.successRate.den
              /\ doc.metrics.averageRewardScore.den > 0
              /\ doc.metrics.averageRewardScore.num * n =
                     SumSeq(rewards) * doc.metrics.averageRewardScore.den
              /\ doc.metrics.failureCount = Num(n - k)
              /\ (uids = <<Num(1), Num(2)>> /\ rewards = <<Num(5), Num(-1)>>) =>
                     /\ doc.metrics.successRate = Num(50)
                     /\ doc.metrics.averageRewardScore = Num(2)
                     /\ doc.metrics.failureCount = Num(1)
                     /\ Len(doc.computedRewards) = 2]_vars

\* the batch [1,2] / [5,-1] was saved after a batch of three entries: two
\* RewardUpdate entries, two computedRewards entries, metrics 50, 2, 1
C10_SavedBatchReached ==
    /\ last.op = "rewards-update" /\ last.code = 200
    /\ last.body.rewards.elems = <<Num(5), Num(-1)>>
    /\ Len(rewardUpdates) = 2
    /\ Len(rewardUpdates[1].rewards) = 3
    /\ FindOne(last.sid) # 0
    /\ Len(Doc(last.sid).computedRewards) = 2
    /\ Doc(last.sid).computedRewards[2] = [minerUid |-> Num(2), score |-> Num(-1)]
    /\ Doc(last.sid).metrics.successRate = Num(50)
    /\ Doc(last.sid).metrics.averageRewardScore = Num(2)
    /\ Doc(last.sid).metrics.failureCount = Num(1)
    /\ Doc(last.sid).version = 2

\* the request that this step answered, as it was in flight before the step
Answered(op) == {r \in inflight \ inflight' : r.op = op /\ last'.id = r.id}

\* the request that this step received and left in flight
Started(op) == {r \in inflight' : r.op = op /\ r.id = nreq' /\ nreq' # nreq}

\* C11: recordRewardsBatch with well-formed arguments for a sessionId that
\* matches no session still appends exactly one RewardUpdate entry (with
\* that sessionId, the minerUids and the rewards), reports success, and
\* neither creates nor changes a session.
C11_BatchWithoutSession ==
    [][/\ \A r \in Started("rewards-update") :
             /\ rewardUpdates' =
                    Append(rewardUpdates,
                           [updateId |-> nextUuid,
                            sessionId |-> r.sid,
                            minerUids |-> r.body.minerUids.elems,
                            rewards |-> r.body.rewards.elems,
                            confirmed |-> FALSE])
             /\ sessions' = sessions
       /\ \A r \in Answered("rewards-update") :
             r.sid \notin SessionIds =>
                 /\ last'.code = 200
                 /\ store' = store
       /\ (Responded /\ last'.op = "rewards-update") => rewardUpdates' = rewardUpdates]_vars

\* a batch for a session id of no session was answered with success: its
\* RewardUpdate entry is the only one, and the one session is untouched
C11_Witness ==
    /\ last.op = "rewards-update" /\ last.code = 200
    /\ last.sid \notin SessionIds
    /\ Len(rewardUpdates) = 1
    /\ rewardUpdates[1].sessionId = last.sid
    /\ rewardUpdates[1].minerUids = last.body.minerUids.elems
    /\ Len(rewardUpdates[1].minerUids) = 2
    /\ Len(sessions) = 1
    /\ sessions[1].computedRewards = <<>>

\* C12: recordSubnetSnapshot and logError with well-formed arguments for a
\* sessionId that matches no session report success and do nothing: no
\* session is created and no session or log entry changes.
C12_SilentWithoutSession ==
    [][(/\ Responded
        /\ last'.sid \notin SessionIds
        /\ \/ /\ last'.op = "subnet-snapshot"
              /\ IsNumber(last'.body.netuid) /\ IsNumber(last'.body.block)
           \/ /\ last'.op = "error"
              /\ last'.body.stage # NoStr /\ last'.body.message # NoStr)
          => /\ last'.code = 200
             /\ store' = store
             /\ inflight' = inflight]_vars

\* an error report for a session id of no session was answered with success
\* while the one session there is still holds no error
C12_Witness ==
    /\ last.op = "error" /\ last.code = 200
    /\ last.sid \notin SessionIds
    /\ Len(sessions) = 1
    /\ sessions[1].validationErrors = <<>>
    /\ sessions[1].subnetSnapshot = NoSnapshot

\* C13: recordChallenge, recordGroundTruth, recordMinerResponse,
\* completeSession and getSession called (with well-formed arguments) with a
\* sessionId that matches no session report not-found and leave the store
\* unchanged: no session is created and none is modified.
C13_NotFoundWithoutSession ==
    [][(/\ Responded
        /\ last'.sid \notin SessionIds
        /\ \/ last'.op = "challenge" /\ last'.body.projectId # NoStr
           \/ last'.op = "ground-truth"
           \/ last'.op = "miner-response" /\ IsNumber(last'.body.minerUid)
           \/ last'.op = "complete"
           \/ last'.op = "get-session")
          => /\ last'.code = 404
             /\ store' = store
             /\ inflight' = inflight]_vars

\* a completion for a session id of no session was refused after requests
\* on the one session there is, which is still pending
C13_Witness ==
    /\ last.op = "complete" /\ last.code = 404
    /\ last.sid \notin SessionIds
    /\ Len(sessions) = 1
    /\ sessions[1].state = "pending"
    /\ nreq >= 3

\* C14: validationErrors is append-only for every session: under any
\* sequence and interleaving of operations its length never decreases, the
\* entries it holds are never modified, reordered or removed (also not by
\* the save of recordRewardsBatch), and it grows only by a logError on that
\* session, which adds exactly one entry at the end.
C14_ErrorsAppendOnly ==
    [][\A i \in Indices(sessions) :
          LET old == sessions[i].validationErrors
              new == sessions'[i].validationErrors
              logged == /\ RespondedWith("error", 200)
                        /\ last'.sid = sessions[i].sessionId
          IN  /\ Len(new) >= Len(old)
              /\ SubSeq(new, 1, Len(old)) = old
              /\ logged =>
                     new = Append(old, [stage |-> last'.body.stage,
                                        message |-> last'.body.message,
                                        stackTrace |-> last'.body.stackTrace])
              /\ ~logged => new = old]_vars

\* a batch was saved on a session after an error was logged on it while the
\* batch was in progress (the batch is request 2, the error request 3): the
\* session holds the batch's computedRewards and the error
C14_Witness ==
    /\ last.op = "rewards-update" /\ last.code = 200 /\ last.id = 2
    /\ nreq = 3
    /\ Len(sessions) = 1
    /\ sessions[1].sessionId = last.sid
    /\ sessions[1].computedRewards # <<>>
    /\ Len(sessions[1].validationErrors) = 1
    /\ sessions[1].validationErrors[1].message = "timeout"

\* a response record without its two reward fields
Unrewarded(rec) == [rec EXCEPT !.rewardScore = Undefined, !.rewardReason = NoStr]

\* C15: minerResponses is append-only with no de-duplication: each
\* successful recordMinerResponse adds exactly one record at the end, also
\* when a record of the same minerUid exists; the earlier records keep their
\* positions; the only later change to a record is to its rewardScore and
\* rewardReason, by a recordMinerReward for its session and minerUid; no
\* operation removes or reorders records.
C15_ResponsesAppendOnly ==
    [][\A i \in Indices(sessions) :
          LET old == sessions[i].minerResponses
              new == sessions'[i].minerResponses
              responded == /\ RespondedWith("miner-response", 200)
                           /\ last'.sid = sessions[i].sessionId
          IN  /\ Len(new) >= Len(old)
              /\ \A j \in Indices(old) :
                     /\ Unrewarded(new[j]) = Unrewarded(old[j])
                     /\ new[j] # old[j] =>
                            \E r \in Started("miner-reward") :
                                /\ r.sid = sessions[i].sessionId
                                /\ r.body.minerUid = old[j].minerUid
              /\ responded =>
                     /\ Len(new) = Len(old) + 1
                     /\ new[Len(new)].minerUid = last'.body.minerUid
                     /\ new[Len(new)].responseTime = last'.body.responseTime
                     /\ new[Len(new)].rewardScore = Undefined
              /\ ~responded => Len(new) = Len(old)]_vars

\* a second response of miner 1 was appended after the first one was
\* rewarded: two records of miner 1, the first with its score
C15_Witness ==
    /\ last.op = "miner-response" /\ last.code = 200
    /\ LET rs == Doc(last.sid).minerResponses
       IN  /\ Len(rs) = 2
           /\ rs[1].minerUid = rs[2].minerUid
           /\ rs[1].rewardScore = Num(1)
           /\ rs[2].rewardScore = Undefined

\* C16: completeSession has partial-patch semantics on metrics: it sets
\* state to completed and overwrites only the metrics sub-fields present in
\* the request; every sub-field omitted (all of them when no metrics are
\* sent) keeps the value it had, for instance the averageRewardScore,
\* successRate and failureCount computed by an earlier recordRewardsBatch;
\* nothing else of the session changes.
C16_CompletePatchesMetrics ==
    [][RespondedWith("complete", 200) =>
          LET old == Doc(last'.sid)
              sent == last'.body.metrics
          IN  /\ DocAfter(last'.sid) =
                     [old EXCEPT
                         !.state = "completed",
                         !.metrics = [f \in DOMAIN old.metrics |->
                                         IF sent[f] # Undefined THEN sent[f]
                                         ELSE old.metrics[f]]]
              /\ \A i \in Indices(sessions) :
                     i # FindOne(last'.sid) => sessions'[i] = sessions[i]]_vars

\* a session was completed with totalQueryTime 9 and averageRewardScore 7
\* after the batch [1,2] / [5,-1]: successRate 50 and failureCount 1 of the
\* batch are still there beside the two values sent
C16_Witness ==
    /\ last.op = "complete" /\ last.code = 200
    /\ last.body.metrics.totalQueryTime = Num(9)
    /\ Doc(last.sid).state = "completed"
    /\ Doc(last.sid).metrics =
           [totalQueryTime |-> Num(9), averageRewardScore |-> Num(7),
            successRate |-> Num(50), failureCount |-> Num(1),
            validFindings |-> Undefined]
    /\ Len(Doc(last.sid).computedRewards) = 2

\* the session as recordRewardsBatch leaves it when it runs alone on doc
BatchApplied(doc, body) ==
    [doc EXCEPT
        !.computedRewards = ComputedRewards(body.minerUids.elems, body.rewards.elems),
        !.metrics = BatchMetrics(body.minerUids.elems, body.rewards.elems),
        !.version = @ + 1]

\* the batch requests whose save this step made
Saving == {r \in inflight \ inflight' : /\ r.op = "rewards-update" /\ r.pc = "save"
                                        /\ last'.id = r.id /\ last'.code = 200}

\* the completions one of which has patched the session of request r since
\* r read it and before r saves
LandedBetween(r) ==
    {c \in CompleteInputs : /\ sessions[r.doc] # r.loaded
                            /\ sessions[r.doc] = CompleteUpdate(r.loaded, c)}

\* C17 as claimed: when a completeSession metrics patch lands between the
\* read and the save of a recordRewardsBatch on the same session, the patch
\* is overwritten by the batch's metrics and the final metrics differ from
\* those of both sequential orders (complete then batch, batch then
\* complete).
C17_LostUpdateDiffers ==
    [][\A r \in Saving : \A c \in LandedBetween(r) :
          LET final == sessions'[r.doc].metrics
          IN  /\ final = BatchMetrics(r.body.minerUids.elems, r.body.rewards.elems)
              /\ final # BatchApplied(CompleteUpdate(r.loaded, c), r.body).metrics
              /\ final # CompleteUpdate(BatchApplied(r.loaded, r.body), c).metrics]_vars

\* C17 as amended: in that interleaving the save overwrites the metrics of
\* the patch with the batch's metrics, and the session ends exactly as in
\* the sequential order complete then batch (state completed, the batch's
\* metrics alone); when the patch sent metrics this differs from the order
\* batch then complete, in which the patch's values would stand.
C17_SaveOverwritesPatch ==
    [][\A r \in Saving : \A c \in LandedBetween(r) :
          /\ sessions'[r.doc].metrics =
                 BatchMetrics(r.body.minerUids.elems, r.body.rewards.elems)
          /\ sessions'[r.doc] = BatchApplied(CompleteUpdate(r.loaded, c), r.body)
          /\ c.metrics # NoMetrics =>
                 sessions'[r.doc].metrics #
                     CompleteUpdate(BatchApplied(r.loaded, r.body), c).metrics]_vars

\* the batch [1,2] / [5,-1] (request 2) was saved after a completion with
\* totalQueryTime 9 (request 3) arrived while the batch was in progress: the
\* session is completed, its metrics are the batch's, the 9 is gone
C17_Witness ==
    /\ last.op = "rewards-update" /\ last.code = 200 /\ last.id = 2
    /\ nreq = 3
    /\ Len(sessions) = 1
    /\ sessions[1].sessionId = last.sid
    /\ sessions[1].state = "completed"
    /\ sessions[1].metrics =
           [totalQueryTime |-> Undefined, averageRewardScore |-> Num(2),
            successRate |-> Num(50), failureCount |-> Num(1),
            validFindings |-> Undefined]

\* a successful write of this step on session sid
Wrote(op, sid) == RespondedWith(op, 200) /\ last'.sid = sid

\* every successful write leaves the values of the call in the session
WriteStored ==
    /\ RespondedWith("challenge", 200) =>
           LET c == DocAfter(last'.sid).challengeInfo
               b == last'.body
           IN  /\ c.projectId = b.projectId
               /\ b.description # NoStr => c.description = b.description
               /\ b.difficulty # NoStr => c.difficulty = b.difficulty
               /\ b.rawData # NoStr => c.rawData = b.rawData
    /\ RespondedWith("ground-truth", 200) =>
           LET g == DocAfter(last'.sid).groundTruth
               b == last'.body
           IN  /\ b.reportId # NoStr => g.reportId = b.reportId
               /\ g.vulnerabilities = b.vulnerabilities.elems
               /\ b.criticalIssues # Undefined => g.criticalIssues = b.criticalIssues
    /\ RespondedWith("miner-response", 200) =>
           LET rs == DocAfter(last'.sid).minerResponses
               b == last'.body
           IN  /\ rs[Len(rs)].minerUid = b.minerUid
               /\ rs[Len(rs)].githubUrl = b.githubUrl
               /\ rs[Len(rs)].responseTime = b.responseTime
               /\ rs[Len(rs)].success = b.success
               /\ rs[Len(rs)].errorMessage = b.errorMessage
    /\ \A r \in Started("miner-reward") :
           LET rs == DocAfter(r.sid).minerResponses
               j == LowestIndex(rs, r.body.minerUid)
           IN  /\ rs[j].rewardScore = r.body.rewardScore
               /\ r.body.rewardReason # NoStr => rs[j].rewardReason = r.body.rewardReason
    /\ (RespondedWith("subnet-snapshot", 200) /\ last'.sid \in SessionIds) =>
           LET n == DocAfter(last'.sid).subnetSnapshot
               b == last'.body
           IN  /\ n.netuid = b.netuid /\ n.block = b.block
               /\ \A f \in {"activeValidators", "activeMiners", "totalStake",
                             "emissionPerBlock"} :
                      b[f] # Undefined => n[f] = b[f]
    /\ (RespondedWith("error", 200) /\ last'.sid \in SessionIds) =>
           LET es == DocAfter(last'.sid).validationErrors
               b == last'.body
           IN  /\ es[Len(es)].stage = b.stage
               /\ es[Len(es)].message = b.message
               /\ es[Len(es)].stackTrace = b.stackTrace

\* a stored value changes only by a later call that writes the same field
WrittenStays ==
    \A i \in Indices(sessions) :
        LET old == sessions[i]
            new == sessions'[i]
            sid == sessions[i].sessionId
        IN  /\ new.challengeInfo # old.challengeInfo => Wrote("challenge", sid)
            /\ new.groundTruth # old.groundTruth => Wrote("ground-truth", sid)
            /\ new.subnetSnapshot # old.subnetSnapshot => Wrote("subnet-snapshot", sid)
            /\ \A j \in Indices(old.validationErrors) :
                   new.validationErrors[j] = old.validationErrors[j]
            /\ \A j \in Indices(old.minerResponses) :
                   /\ Unrewarded(new.minerResponses[j]) = Unrewarded(old.minerResponses[j])
                   /\ new.minerResponses[j] # old.minerResponses[j] =>
                          \E r \in Started("miner-reward") :
                              /\ r.sid = sid
                              /\ r.body.minerUid = old.minerResponses[j].minerUid

\* getSession returns the session as it is stored and changes nothing
ReadReturnsStored ==
    RespondedWith("get-session", 200) =>
        /\ last'.body = Doc(last'.sid)
        /\ last'.body.sessionId = last'.sid
        /\ store' = store

C19_IdentityImmutable ==
    [][/\ \A i \in Indices(sessions) :
             /\ sessions'[i].sessionId = sessions[i].sessionId
             /\ sessions'[i].timestamp = sessions[i].timestamp
             /\ sessions'[i].sampledMinerUids = sessions[i].sampledMinerUids
             /\ sessions'[i].sampledMinerCount = sessions[i].sampledMinerCount
       /\ \A i, j \in Indices(sessions') :
             i # j => sessions'[i].sessionId # sessions'[j].sessionId]_vars

\* two sessions created at different times, the first of them challenged:
\* it still has its creation time, its count and its own id
C19_Witness ==
    /\ Len(sessions) = 2
    /\ sessions[1].timestamp = 0 /\ sessions[2].timestamp = 1
    /\ sessions[1].sessionId # sessions[2].sessionId
    /\ sessions[1].projectId = "p1"
    /\ sessions[1].sampledMinerCount = Num(2)
    /\ now = 1

\* C20: MinerHistory and RewardUpdate are append-only logs: no operation
\* updates or deletes an entry once written; each successful
\* recordMinerReward adds exactly one MinerHistory entry and each accepted
\* recordRewardsBatch exactly one RewardUpdate entry, and nothing else adds
\* one; every RewardUpdate entry has confirmed = false in every state.
C20_LogsAppendOnly ==
    [][/\ SubSeq(minerHistory', 1, Len(minerHistory)) = minerHistory
       /\ Len(minerHistory') =
              Len(minerHistory) + (IF RespondedWith("miner-reward", 200) THEN 1 ELSE 0)
       /\ SubSeq(rewardUpdates', 1, Len(rewardUpdates)) = rewardUpdates
       /\ Len(rewardUpdates') =
              Len(rewardUpdates) + Cardinality(Started("rewards-update"))
       /\ \A k \in Indices(rewardUpdates') : rewardUpdates'[k].confirmed = FALSE]_vars

\* miner 1 was rewarded twice on one session, at two times: two MinerHistory
\* entries for the same session and miner, the first as it was written
C20_Witness ==
    /\ last.op = "miner-reward" /\ last.code = 200
    /\ Len(minerHistory) = 2
    /\ minerHistory[1].sessionId = minerHistory[2].sessionId
    /\ minerHistory[1].minerUid = minerHistory[2].minerUid
    /\ minerHistory[1].timestamp = 0 /\ minerHistory[2].timestamp = 1

\* C24: recordGroundTruth on an existing session writes groundTruth
\* (reportId, vulnerabilities defaulting to empty, criticalIssues, rawData)
\* and changes nothing else: the session's state, challengeInfo,
\* minerResponses, computedRewards, metrics, subnetSnapshot and
\* validationErrors are as before the call, in whatever state the session
\* is; so are the other sessions and the two logs.
C24_GroundTruthFrame ==
    [][RespondedWith("ground-truth", 200) =>
          /\ FindOne(last'.sid) # 0
          /\ DocAfter(last'.sid).groundTruth.vulnerabilities =
                 last'.body.vulnerabilities.elems
          /\ DocAfter(last'.sid).groundTruth.reportId =
                 Patched(Doc(last'.sid).groundTruth.reportId, last'.body.reportId)
          /\ DocAfter(last'.sid).groundTruth.rawData =
                 Patched(Doc(last'.sid).groundTruth.rawData, last'.body.rawData)
          /\ DocAfter(last'.sid).groundTruth.criticalIssues =
                 IF last'.body.criticalIssues = Undefined
                 THEN Doc(last'.sid).groundTruth.criticalIssues
                 ELSE last'.body.criticalIssues
          /\ DocAfter(last'.sid).state = Doc(last'.sid).state
          /\ DocAfter(last'.sid).challengeInfo = Doc(last'.sid).challengeInfo
          /\ DocAfter(last'.sid).minerResponses = Doc(last'.sid).minerResponses
          /\ DocAfter(last'.sid).computedRewards = Doc(last'.sid).computedRewards
          /\ DocAfter(last'.sid).metrics = Doc(last'.sid).metrics
          /\ DocAfter(last'.sid).subnetSnapshot = Doc(last'.sid).subnetSnapshot
          /\ DocAfter(last'.sid).validationErrors = Doc(last'.sid).validationErrors
          /\ DocAfter(last'.sid) = [Doc(last'.sid) EXCEPT
                 !.groundTruth = DocAfter(last'.sid).groundTruth]
          /\ \A i \in Indices(sessions) :
                 i # FindOne(last'.sid) => sessions'[i] = sessions[i]
          /\ Len(sessions') = Len(sessions)
          /\ minerHistory' = minerHistory
          /\ rewardUpdates' = rewardUpdates]_vars

\* the ground truth was recorded on a completed session that had been
\* challenged: it is still completed and its challenge is still there
C24_Witness ==
    /\ last.op = "ground-truth" /\ last.code = 200
    /\ FindOne(last.sid) # 0
    /\ Doc(last.sid).state = "completed"
    /\ Doc(last.sid).challengeInfo.projectId = "p1"
    /\ Doc(last.sid).metrics.totalQueryTime = Num(9)
    /\ Doc(last.sid).groundTruth.reportId = "r1"
    /\ Doc(last.sid).groundTruth.vulnerabilities = <<"v1">>

\* the MinerHistory entries of a session and a miner, by position in the log
HistoryOf(sid, uid) ==
    {h \in Indices(minerHistory) :
        minerHistory[h].sessionId = sid /\ minerHistory[h].minerUid = uid}

\* the most recently appended of a non-empty set of log positions
Latest(H) == CHOOSE h \in H : \A g \in H : g <= h

\* no recordMinerReward for the session and the miner is still running
RewardsFinished(sid, uid) ==
    \A r \in inflight :
        ~(r.op = "miner-reward" /\ r.sid = sid /\ r.body.minerUid = uid)

\* C26: under two concurrent recordMinerReward calls for the same
\* (sessionId, minerUid) with different scores, once both have finished the
\* rewardScore stored on the session's first matching response equals the
\* rewardScore of the most recently appended MinerHistory entry for that
\* pair.
C26_RewardMatchesHistory ==
    \A i \in Indices(sessions) :
        \A uid \in {sessions[i].minerResponses[j].minerUid :
                        j \in Indices(sessions[i].minerResponses)} :
            (/\ HistoryOf(sessions[i].sessionId, uid) # {}
             /\ RewardsFinished(sessions[i].sessionId, uid))
                => sessions[i].minerResponses[
                       FirstMatch(sessions[i].minerResponses, uid)].rewardScore
                   = minerHistory[Latest(HistoryOf(sessions[i].sessionId, uid))].rewardScore

\* C27: every MinerHistory entry is backed by the session side: in every
\* reachable state, for each MinerHistory entry h there is a session with
\* sessionId h.sessionId whose minerResponses contains a record with minerUid
\* h.minerUid, and h.status is success exactly when h.rewardScore > 0 (status
\* is never timeout or error).
C27_HistoryBacked ==
    \A h \in Indices(minerHistory) :
        /\ \E i \in Indices(sessions) :
               /\ sessions[i].sessionId = minerHistory[h].sessionId
               /\ \E j \in Indices(sessions[i].minerResponses) :
                      sessions[i].minerResponses[j].minerUid = minerHistory[h].minerUid
        /\ minerHistory[h].status \in {"success", "failed"}
        /\ minerHistory[h].status = "success" <=>
               /\ minerHistory[h].rewardScore.k = "number"
               /\ minerHistory[h].rewardScore.den > 0
               /\ minerHistory[h].rewardScore.num > 0

\* two rewards were recorded, of scores 2 and 0: a success and a failure,
\* each for a miner that responded on the session
C27_Witness ==
    /\ Len(minerHistory) = 2
    /\ inflight = {}
    /\ \E a, b \in Indices(minerHistory) :
           /\ minerHistory[a].rewardScore = Num(2) /\ minerHistory[a].status = "success"
           /\ minerHistory[b].rewardScore = Num(0) /\ minerHistory[b].status = "failed"

\* the computedRewards entries of a document whose score is > 0, and <= 0
PositiveScores(doc) ==
    {i \in Indices(doc.computedRewards) : doc.computedRewards[i].score.num > 0}
OtherScores(doc) ==
    {i \in Indices(doc.computedRewards) : doc.computedRewards[i].score.num <= 0}

\* C28: computedRewards and the batch-derived metrics stay mutually
\* consistent under any interleaving of concurrent recordRewardsBatch calls on
\* one session when completeSession is not called: in every state where
\* computedRewards is non-empty, metrics.failureCount equals the number of
\* computedRewards entries with score <= 0, and metrics.failureCount plus the
\* number of entries with score > 0 equals the length of computedRewards.
C28_RewardsMatchMetrics ==
    \A i \in Indices(sessions) :
        sessions[i].computedRewards # <<>> =>
            /\ sessions[i].metrics.failureCount =
                   Num(Cardinality(OtherScores(sessions[i])))
            /\ sessions[i].metrics.failureCount.num
                   + Cardinality(PositiveScores(sessions[i]))
                   = Len(sessions[i].computedRewards)

\* two batches read the same session before either saved: the batch of two
\* entries saved, the batch of three was refused on the version and left
\* nothing behind on the session
C28_Witness ==
    /\ last.op = "rewards-update" /\ last.code = 500
    /\ Len(last.body.minerUids.elems) = 3
    /\ FindOne(last.sid) # 0
    /\ Doc(last.sid).version = 1
    /\ Len(Doc(last.sid).computedRewards) = 2
    /\ Doc(last.sid).metrics.failureCount = Num(1)
    /\ Len(rewardUpdates) = 2

\* the batch requests whose save this step attempted
SaveAttempts ==
    {r \in inflight \ inflight' : r.op = "rewards-update" /\ r.pc = "save"}

\* C29: recordRewardsBatch changes only computedRewards and the three
\* metrics fields it recomputes (successRate, averageRewardScore,
\* failureCount): metrics.totalQueryTime and metrics.validFindings set by an
\* earlier completeSession, and the session's state, challengeInfo,
\* groundTruth, minerResponses, subnetSnapshot and validationErrors, are the
\* same after the batch as before it.
C29_BatchFrame ==
    [][\A r \in SaveAttempts :
          /\ sessions'[r.doc].metrics.totalQueryTime =
                 sessions[r.doc].metrics.totalQueryTime
          /\ sessions'[r.doc].metrics.validFindings =
                 sessions[r.doc].metrics.validFindings
          /\ sessions'[r.doc].state = sessions[r.doc].state
          /\ sessions'[r.doc].challengeInfo = sessions[r.doc].challengeInfo
          /\ sessions'[r.doc].groundTruth = sessions[r.doc].groundTruth
          /\ sessions'[r.doc].minerResponses = sessions[r.doc].minerResponses
          /\ sessions'[r.doc].subnetSnapshot = sessions[r.doc].subnetSnapshot
          /\ sessions'[r.doc].validationErrors = sessions[r.doc].validationErrors]_vars

\* C30: every batch accepted by recordRewardsBatch yields well-defined
\* metrics: for all equal-length minerUids and rewards sequences, including
\* the empty pair, the batch is answered with success and leaves
\* metrics.successRate a number between 0 and 100 and
\* metrics.averageRewardScore a number.
C30_BatchMetricsDefined ==
    [][\A r \in Finished :
          LET m == BatchMetrics(r.body.minerUids.elems, r.body.rewards.elems)
          IN  /\ m.successRate.k = "number" /\ m.successRate.den > 0
              /\ 0 <= m.successRate.num
              /\ m.successRate.num <= 100 * m.successRate.den
              /\ m.averageRewardScore.k = "number"
              /\ m.averageRewardScore.den > 0
              /\ RespondedWith("rewards-update", 200)
              /\ sessions'[r.doc].metrics = m]_vars

\* the length in days of the window a timeRange names
WindowDays(timeRange) ==
    CASE timeRange = "24h" -> 1
      [] timeRange = "7d" -> 7
      [] timeRange = "30d" -> 30

\* the MinerHistory entries of a miner made within the window, in log order
InWindow(uid, timeRange) ==
    SelectSeq(minerHistory,
              LAMBDA h : h.minerUid = uid /\ h.timestamp >= now - WindowDays(timeRange))

\* the miners with an entry in the window
WindowMiners(timeRange) ==
    {minerHistory[h].minerUid : h \in
        {g \in Indices(minerHistory) :
            minerHistory[g].timestamp >= now - WindowDays(timeRange)}}

\* a miner's total reward over the window
WindowTotal(uid, timeRange) ==
    Num(SumSeq([i \in Indices(InWindow(uid, timeRange)) |->
                   InWindow(uid, timeRange)[i].rewardScore]))

\* C21: leaderboard(timeRange, limit) returns at most limit entries, one
\* per distinct minerUid that has a MinerHistory entry in the window, each
\* with totalRewards equal to the sum of that miner's rewardScore in the
\* window; the entries are ordered by descending totalRewards (no miner left
\* out by the limit has more than one returned) and their ranks are exactly
\* 1..N by position.
C21_LeaderboardRanked ==
    [][RespondedWith("leaderboard", 200) =>
          LET q == last'.body.request
              board == last'.body.data
          IN  /\ Len(board) <= q.limit
              /\ Len(board) = Min(q.limit, Cardinality(WindowMiners(q.timeRange)))
              /\ \A i \in Indices(board) :
                     /\ board[i].minerUid \in WindowMiners(q.timeRange)
                     /\ board[i].totalRewards =
                            WindowTotal(board[i].minerUid, q.timeRange)
                     /\ board[i].participationCount =
                            Len(InWindow(board[i].minerUid, q.timeRange))
                     /\ board[i].rank = i
              /\ \A i, j \in Indices(board) :
                     i # j => board[i].minerUid # board[j].minerUid
              /\ \A i \in 1..(Len(board) - 1) :
                     /\ board[i + 1].rank = board[i].rank + 1
                     /\ Leq(board[i + 1].totalRewards, board[i].totalRewards)
              /\ \A uid \in WindowMiners(q.timeRange) :
                     (\A i \in Indices(board) : board[i].minerUid # uid) =>
                         \A i \in Indices(board) :
                             Leq(WindowTotal(uid, q.timeRange), board[i].totalRewards)]_vars

\* miner 1 was rewarded 2 at day 0 and -1 later, miner 2 was rewarded 2: the
\* 24-hour board has miner 2 first with 2 and miner 1 second with -1, the
\* entry of day 0 being outside the window
C21_Witness ==
    /\ last.op = "leaderboard" /\ last.code = 200
    /\ last.body.request.timeRange = "24h"
    /\ Len(minerHistory) = 3
    /\ minerHistory[1].timestamp = 0 /\ minerHistory[1].rewardScore = Num(2)
    /\ now = 2
    /\ Len(last.body.data) = 2
    /\ last.body.data[1] =
           [rank |-> 1, minerUid |-> Num(2), totalRewards |-> Num(2),
            participationCount |-> 1]
    /\ last.body.data[2] =
           [rank |-> 2, minerUid |-> Num(1), totalRewards |-> Num(-1),
            participationCount |-> 1]

\* the MinerHistory entries of a miner, in log order
EntriesOf(uid) == SelectSeq(minerHistory, LAMBDA h : h.minerUid = uid)

\* the page a minerHistory request read: entries of the miner only, in
\* descending time, none of them older than an entry left out
RecentPage(page, uid) ==
    /\ \A i \in Indices(page) : page[i].minerUid = uid
    /\ \A i \in 1..(Len(page) - 1) : page[i].timestamp >= page[i + 1].timestamp
    /\ Len(page) <= Len(EntriesOf(uid))
    /\ \A t \in {EntriesOf(uid)[h].timestamp : h \in Indices(EntriesOf(uid))} :
           Cardinality({i \in Indices(page) : page[i].timestamp >= t}) >=
               Min(Len(page),
                   Cardinality({h \in Indices(EntriesOf(uid)) :
                                   EntriesOf(uid)[h].timestamp >= t}))

\* the stats of a minerHistory response are taken over all entries of the
\* miner: as many participations as entries, split into successes and
\* failures
LifetimeStats(stats, uid) ==
    /\ stats.totalParticipations = Num(Len(EntriesOf(uid)))
    /\ stats.successCount =
           Num(Len(SelectSeq(EntriesOf(uid), LAMBDA h : h.rewardScore.num > 0)))
    /\ stats.failureCount =
           Num(Len(SelectSeq(EntriesOf(uid), LAMBDA h : h.rewardScore.num <= 0)))
    /\ EntriesOf(uid) # <<>> =>
           stats.avgReward.num * Len(EntriesOf(uid)) =
               stats.avgReward.den *
                   SumSeq([h \in Indices(EntriesOf(uid)) |-> EntriesOf(uid)[h].rewardScore])

\* a miner's entries grow by one with each successful recordMinerReward for
\* that miner and with nothing else
ParticipationsCounted ==
    \A uid \in MinerInputs :
        Len(SelectSeq(minerHistory', LAMBDA h : h.minerUid = uid)) =
            Len(EntriesOf(uid)) +
                (IF RespondedWith("miner-reward", 200) /\ last'.body.minerUid = uid
                 THEN 1 ELSE 0)

\* C22: minerHistory(minerUid, limit) returns at most limit entries, the
\* most recent ones for that miner in descending time, while the returned
\* stats (totalParticipations, successCount, failureCount, avgReward) are
\* computed over all MinerHistory entries of that miner regardless of limit;
\* totalParticipations equals the number of successful recordMinerReward
\* calls made for that minerUid across all sessions.
C22_HistoryLimited ==
    [][/\ \A r \in Started("miner-history") :
              /\ Len(r.loaded.history) <= r.body.limit
              /\ RecentPage(r.loaded.history, r.body.minerUid)
       /\ \A r \in Answered("miner-history") :
              /\ last'.body.data.history = r.loaded.history
              /\ LifetimeStats(last'.body.data.stats, r.body.minerUid)
       /\ ParticipationsCounted]_vars

\* the same for every limit but 0: at most limit entries are returned, as
\* many as the miner has when these are fewer
C22_PositiveLimitHolds ==
    [][/\ \A r \in Started("miner-history") :
              /\ r.body.limit >= 1 =>
                     Len(r.loaded.history) =
                         Min(r.body.limit, Len(EntriesOf(r.body.minerUid)))
              /\ r.body.limit = 0 =>
                     Len(r.loaded.history) = Len(EntriesOf(r.body.minerUid))
              /\ RecentPage(r.loaded.history, r.body.minerUid)
       /\ \A r \in Answered("miner-history") :
              /\ last'.body.data.history = r.loaded.history
              /\ LifetimeStats(last'.body.data.stats, r.body.minerUid)
       /\ ParticipationsCounted]_vars

\* miner 1 was rewarded three times and its history was asked with limit 1:
\* one entry, the latest, and stats over the three
C22_LimitOneReached ==
    /\ last.op = "miner-history" /\ last.code = 200
    /\ last.body.request = [minerUid |-> Num(1), limit |-> 1]
    /\ Len(last.body.data.history) = 1
    /\ last.body.data.history[1].timestamp = 2
    /\ last.body.data.stats.totalParticipations = Num(3)

\* the sessions created within the window, in store order
SessionsInWindow(timeRange) ==
    SelectSeq(sessions, LAMBDA d : d.timestamp >= now - WindowDays(timeRange))

\* C23: sessionStats over a window that contains no session returns a
\* record with totalSessions, completedSessions, failedSessions,
\* avgRewardScore, totalMinersQueried and avgQueryTime all zero and no error;
\* over a non-empty window totalSessions counts the sessions created in the
\* window, completedSessions counts those whose state is completed, and
\* totalMinersQueried is the sum of their sampledMinerCount.
C23_StatsOverWindow ==
    [][(Responded /\ last'.op = "stats") =>
          LET docs == SessionsInWindow(last'.body.request.timeRange)
              data == last'.body.data
          IN  /\ last'.code = 200
              /\ docs = <<>> =>
                     /\ data.totalSessions = Num(0)
                     /\ data.completedSessions = Num(0)
                     /\ data.failedSessions = Num(0)
                     /\ data.avgRewardScore = Num(0)
                     /\ data.totalMinersQueried = Num(0)
                     /\ data.avgQueryTime = Num(0)
              /\ docs # <<>> =>
                     /\ data.totalSessions = Num(Len(docs))
                     /\ data.completedSessions =
                            Num(Len(SelectSeq(docs, LAMBDA d : d.state = "completed")))
                     /\ data.totalMinersQueried =
                            Num(SumSeq([i \in Indices(docs) |->
                                           docs[i].sampledMinerCount]))]_vars

\* a second session of two miners was created at day 2 and completed; at day
\* 8 the stats of 7 days count it alone, the session of day 0 being outside
C23_CountedReached ==
    /\ last.op = "stats" /\ last.code = 200
    /\ last.body.request.timeRange = "7d"
    /\ now = 8
    /\ Len(sessions) = 2
    /\ sessions[1].timestamp = 0 /\ sessions[2].timestamp = 2
    /\ sessions[2].state = "completed"
    /\ last.body.data.totalSessions = Num(1)
    /\ last.body.data.completedSessions = Num(1)
    /\ last.body.data.totalMinersQueried = Num(2)

\* the stats of 24 hours asked at day 2, when the only session is of day 0:
\* the zeroed record
C23_Witness ==
    /\ last.op = "stats" /\ last.code = 200
    /\ last.body.request.timeRange = "24h"
    /\ now = 2
    /\ Len(sessions) = 1
    /\ last.body.data = NoStats

\* the sessions of a project, in store order
SessionsOf(projectId) == SelectSeq(sessions, LAMBDA d : d.projectId = projectId)

\* C25: projectSummary(projectId) over the sessions whose projectId matches
\* reports totalValidationRuns as their count, successfulRuns as the number
\* in state completed, totalMinersQueried as the sum of sampledMinerCount, and
\* avgRewardScore as the sum of metrics.averageRewardScore divided by the
\* session count; with zero matching sessions the division is by zero and
\* avgRewardScore is not a number while lastRun is null.
C25_SummaryOverProject ==
    [][RespondedWith("project-summary", 200) =>
          LET docs == SessionsOf(last'.body.request.projectId)
              data == last'.body.data
          IN  /\ data.totalValidationRuns = Num(Len(docs))
              /\ data.successfulRuns =
                     Num(Len(SelectSeq(docs, LAMBDA d : d.state = "completed")))
              /\ data.totalMinersQueried =
                     Num(SumSeq([i \in Indices(docs) |-> docs[i].sampledMinerCount]))
              /\ docs = <<>> =>
                     /\ data.avgRewardScore = NaN
                     /\ data.lastRun = Null
              /\ docs # <<>> =>
                     /\ data.avgRewardScore.den > 0
                     /\ data.avgRewardScore.num * Len(docs) =
                            data.avgRewardScore.den *
                                SumSeq([i \in Indices(docs) |->
                                           docs[i].metrics.averageRewardScore])
                     /\ data.lastRun.k = "date"
                     /\ \A i \in Indices(docs) :
                            docs[i].timestamp <= data.lastRun.num]_vars

\* the summary of a project that no session belongs to, asked while the
\* store holds a session of another project: 0 runs, NaN, null
C25_Witness ==
    /\ last.op = "project-summary" /\ last.code = 200
    /\ last.body.request.projectId = "p3"
    /\ Len(sessions) >= 1
    /\ last.body.data.totalValidationRuns = Num(0)
    /\ last.body.data.avgRewardScore = NaN
    /\ last.body.data.lastRun = Null

\* the summary of project p1 over the completed session of day 0 (3 miners,
\* average 7) and a session of day 2 still in progress (2 miners, no
\* average): 2 runs, 1 successful, 5 miners, 3.5, last run at day 2
C25_TwoSessionsReached ==
    /\ last.op = "project-summary" /\ last.code = 200
    /\ last.body.request.projectId = "p1"
    /\ last.body.data.totalValidationRuns = Num(2)
    /\ last.body.data.successfulRuns = Num(1)
    /\ last.body.data.totalMinersQueried = Num(5)
    /\ last.body.data.avgRewardScore = Half(7)
    /\ last.body.data.lastRun = DateValue(2)

\* this step reported a failure to the caller of a request
Failed == Responded /\ last'.code >= 400

\* the requests that this step answered with a failure after an earlier
\* step had performed their first store call
FailedLate == {r \in inflight \ inflight' : Failed /\ last'.id = r.id}

\* the RewardUpdate entries that a store holds with the session and the
\* arrays of a batch request
LoggedFor(r, log) ==
    {i \in Indices(log) : log[i] = UpdateEntry(log[i].updateId, r.sid, r.body)}

\* no other request can have written what request r wrote: no second request
\* of its operation on its session is in flight, and none has succeeded (no
\* batch was saved on the session, no MinerHistory entry names the miner)
WroteAlone(r) ==
    /\ \A q \in inflight \ {r} : ~(q.op = r.op /\ q.sid = r.sid)
    /\ r.op = "rewards-update" => sessions[FindOne(r.sid)].version = 0
    /\ r.op = "miner-reward" =>
           \A h \in Indices(minerHistory) :
               ~(/\ minerHistory[h].sessionId = r.sid
                 /\ minerHistory[h].minerUid = r.body.minerUid)

\* C31: an operation that ends by reporting a failure to its caller
\* (validation error, not found, or a store failure surfaced as an internal
\* error) has changed nothing: a request rejected at once leaves the store
\* as it was, and when the second store call of recordRewardsBatch or of
\* recordMinerReward fails, the RewardUpdate entry written by the first
\* call is not in the store and the response patched by the first call does
\* not carry the reward.
C31_FailureChangesNothing ==
    [][/\ (Failed /\ inflight' = inflight) => store' = store
       /\ \A r \in FailedLate :
             WroteAlone(r) =>
                 /\ r.op = "rewards-update" => LoggedFor(r, rewardUpdates') = {}
                 /\ r.op = "miner-reward" =>
                        sessions'[FindOne(r.sid)] #
                            RewardPatch(sessions'[FindOne(r.sid)], r.body)]_vars

\* a request rejected before its first store call (400, 404) changes nothing
C31_RejectionChangesNothing ==
    [][(Failed /\ inflight' = inflight) => store' = store]_vars

\* a batch answered 500 by a failed save of a session that no batch has
\* saved, with its RewardUpdate entry in the store
C31_BatchEntryLeft ==
    /\ last.op = "rewards-update" /\ last.code = 500
    /\ inflight = {}
    /\ Len(last.body.minerUids.elems) = 2
    /\ Doc(last.sid).version = 0
    /\ Doc(last.sid).computedRewards = <<>>
    /\ \E i \in Indices(rewardUpdates) :
           /\ rewardUpdates[i].sessionId = last.sid
           /\ Len(rewardUpdates[i].minerUids) = 2

\* a reward answered 500 by a failed MinerHistory.create, with the response
\* carrying the reward and no MinerHistory entry
C31_RewardPatchLeft ==
    /\ last.op = "miner-reward" /\ last.code = 500
    /\ inflight = {}
    /\ minerHistory = <<>>
    /\ \E j \in Indices(Doc(last.sid).minerResponses) :
           /\ Doc(last.sid).minerResponses[j].minerUid = last.body.minerUid
           /\ Doc(last.sid).minerResponses[j].rewardScore = last.body.rewardScore

====
